---- MODULE Spec2Model ----
(***************************************************************************)
(* Model of burncloud-database-models: the models / installed_models       *)
(* tables (models_table.rs), the ModelsRepository statements               *)
(* (models_repository.rs) and the ModelsService check-then-act operations  *)
(* (models_service.rs).  Every repository call is one SQL statement and    *)
(* therefore one atomic step; a service operation is the sequence of its   *)
(* awaits, so concurrent callers interleave between the statements.        *)
(***************************************************************************)
EXTENDS Integers, Sequences, FiniteSets, TLC

\* ---------------------------------------------------------------- bounds
\* usage_count is capped so that the state space is finite.
MaxUsage == 1
\* The clock (Utc::now()) runs from 0 to MaxTime.
MaxTime == 1
\* download_count is capped so that the state space is finite.
MaxDownloads == 1
\* The number of migration scripts, and their versions.
Migrations == 2
Versions == 1..Migrations

\* Concurrent callers of the service / repository (tokio tasks).
Callers == {"c1", "c2"}
\* Uuid values of models and the names the callers use.
ModelIds == {1, 2}
Names == {"a", "b"}

\* Option<T>: None is the empty sequence, Some(v) the one-element sequence.
None == <<>>
Some(v) == <<v>>
is_some(o) == Len(o) = 1
is_none(o) == Len(o) = 0
unwrap(o) == o[1]

\* Option<String>::unwrap_or_default(): None becomes the empty string.
unwrap_or_default(o) == IF is_some(o) THEN unwrap(o) ELSE ""

\* ------------------------------------------------------- 64-bit integers
\* A 64-bit pattern is three limbs <<h, m, l>>: h the bits 42..63 (22 bits),
\* m the bits 21..41 and l the bits 0..20, so the value of a u64 is
\* h * 2^42 + m * 2^21 + l.  An i64 is [neg, mag]: its sign and the limbs
\* of its magnitude.
Limb == 2^21
Word(h, m, l) == <<h, m, l>>
Zero == Word(0, 0, 0)
word_lt(a, b) ==
    \/ a[1] < b[1]
    \/ a[1] = b[1] /\ a[2] < b[2]
    \/ a[1] = b[1] /\ a[2] = b[2] /\ a[3] < b[3]
word_le(a, b) == a = b \/ word_lt(a, b)
\* 2^64 - w (mod 2^64), limb by limb with borrow.
wrapping_neg(w) ==
    LET b1 == IF w[3] = 0 THEN 0 ELSE 1
        b2 == IF w[2] + b1 = 0 THEN 0 ELSE 1
    IN  Word((4 * Limb - w[1] - b2) % (2 * Limb),
             (2 * Limb - w[2] - b1) % Limb,
             (Limb - w[3]) % Limb)
\* w + 1 (mod 2^64).
wrapping_inc(w) ==
    IF w[3] + 1 < Limb THEN Word(w[1], w[2], w[3] + 1)
    ELSE IF w[2] + 1 < Limb THEN Word(w[1], w[2] + 1, 0)
    ELSE Word((w[1] + 1) % (2 * Limb), 0, 0)
\* w - 1 (mod 2^64).
wrapping_dec(w) == wrapping_neg(wrapping_inc(wrapping_neg(w)))
\* w * n for a small factor n.
word_mul_small(w, n) ==
    LET l == w[3] * n
        m == w[2] * n + (l \div Limb)
        h == w[1] * n + (m \div Limb)
    IN  Word(h % (2 * Limb), m % Limb, l % Limb)
\* n * 1_000_000_000 and n * 1024 * 1024 * 1024 as u64.
GB(n) == word_mul_small(Word(0, 476, 1755648), n)
GiB(n) == word_mul_small(Word(0, 512, 0), n)
U64_MAX == Word(2 * Limb - 1, Limb - 1, Limb - 1)
I64_MAX == Word(Limb - 1, Limb - 1, Limb - 1)
\* `u as i64`: the same 64 bits read as two's complement.
as_i64(u) ==
    IF u[1] >= Limb THEN [neg |-> TRUE, mag |-> wrapping_neg(u)]
    ELSE [neg |-> FALSE, mag |-> u]
\* `i as u64`: the same 64 bits read as unsigned.
as_u64(i) == IF i.neg THEN wrapping_neg(i.mag) ELSE i.mag
\* The i64 of a small natural number, and i + 1.
I64(n) == [neg |-> FALSE, mag |-> Word(0, 0, n)]
i64_lt(a, b) ==
    IF a.neg # b.neg THEN a.neg
    ELSE IF a.neg THEN word_lt(b.mag, a.mag) ELSE word_lt(a.mag, b.mag)
i64_le(a, b) == a = b \/ i64_lt(a, b)
i64_inc(i) == as_i64(wrapping_inc(as_u64(i)))

\* The low 32 bits of w.
trunc32(w) == Word(0, w[2] % (2^11), w[3])
U32_MAX == Word(0, 2^11 - 1, Limb - 1)
I32_MAX == Word(0, 2^10 - 1, Limb - 1)
\* `p as i32` of a u32 and `p as u32` of an i32: the same 32 bits.
as_i32(p) ==
    IF word_lt(I32_MAX, p)
    THEN [neg |-> TRUE, mag |-> trunc32(wrapping_neg(p))]
    ELSE [neg |-> FALSE, mag |-> p]
as_u32(i) == IF i.neg THEN trunc32(wrapping_neg(i.mag)) ELSE i.mag

\* ------------------------------------------------------------- the enums
\* A variant is its discriminant; Display writes the variant name, FromStr
\* (the match on the text) reads it back or fails.
Ok(v) == [res |-> "Ok", ret |-> v]
Err == [res |-> "Err", ret |-> "none"]

BasicModelTypeNames ==
    <<"Chat", "Code", "Text", "Embedding", "Image", "Audio", "Video",
      "Multimodal", "Other">>
BasicModelType == 1..Len(BasicModelTypeNames)
Chat == 1
Code == 2
Text == 3
Embedding == 4
Image == 5
Audio == 6
Video == 7
Multimodal == 8
Other == 9
BasicModelType_to_string(v) == BasicModelTypeNames[v]
\* Variant of from_str that reads unknown text as Other.
BasicModelType_from_str_or_other(s) ==
    IF \E v \in BasicModelType : BasicModelTypeNames[v] = s
    THEN Ok(CHOOSE v \in BasicModelType : BasicModelTypeNames[v] = s)
    ELSE Ok(Other)
BasicModelType_from_str(s) ==
    CASE s = "Chat" -> Ok(Chat)
      [] s = "Code" -> Ok(Code)
      [] s = "Text" -> Ok(Text)
      [] s = "Embedding" -> Ok(Embedding)
      [] s = "Image" -> Ok(Image)
      [] s = "Audio" -> Ok(Audio)
      [] s = "Video" -> Ok(Video)
      [] s = "Multimodal" -> Ok(Multimodal)
      [] s = "Other" -> Ok(Other)
      [] OTHER -> Err

BasicModelStatusNames ==
    <<"Running", "Starting", "Stopping", "Stopped", "Error">>
BasicModelStatus == 1..Len(BasicModelStatusNames)
Running == 1
Starting == 2
Stopping == 3
Stopped == 4
Error == 5
BasicModelStatus_to_string(v) == BasicModelStatusNames[v]
BasicModelStatus_from_str(s) ==
    CASE s = "Running" -> Ok(Running)
      [] s = "Starting" -> Ok(Starting)
      [] s = "Stopping" -> Ok(Stopping)
      [] s = "Stopped" -> Ok(Stopped)
      [] s = "Error" -> Ok(Error)
      [] OTHER -> Err

BasicSizeCategoryNames == <<"Small", "Medium", "Large", "XLarge">>
BasicSizeCategory == 1..Len(BasicSizeCategoryNames)
Small == 1
Medium == 2
Large == 3
XLarge == 4
BasicSizeCategory_to_string(v) == BasicSizeCategoryNames[v]

\* file_size_to_category(size_bytes: u64) -> BasicSizeCategory.
file_size_to_category_no_medium(size_bytes) ==
    IF word_lt(size_bytes, GB(10)) THEN Small
    ELSE IF word_lt(size_bytes, GB(25)) THEN Large
    ELSE XLarge
file_size_to_category(size_bytes) ==
    IF word_lt(size_bytes, GB(3)) THEN Small
    ELSE IF word_lt(size_bytes, GB(10)) THEN Medium
    ELSE IF word_lt(size_bytes, GB(25)) THEN Large
    ELSE XLarge

\* calculate_size_category(file_size: i64) -> String: the size in GiB as f64
\* against 3.0, 8.0 and 30.0.  The division by 1024 is exact and the
\* breakpoints are exact in f64, so the comparison is that of the integers;
\* a negative size is below 3.0.
calculate_size_category(file_size) ==
    IF file_size.neg THEN "Small"
    ELSE IF word_lt(file_size.mag, GiB(3)) THEN "Small"
    ELSE IF word_lt(file_size.mag, GiB(8)) THEN "Medium"
    ELSE IF word_lt(file_size.mag, GiB(30)) THEN "Large"
    ELSE "XLarge"

\* The match on size_category in TryFrom<ModelsTable> for BasicModel.
BasicSizeCategory_match(s) ==
    CASE s = "Small" -> Ok(Small)
      [] s = "Medium" -> Ok(Medium)
      [] s = "Large" -> Ok(Large)
      [] s = "XLarge" -> Ok(XLarge)
      [] OTHER -> Err

\* ------------------------------------------------------------- serde_json
\* The tags, languages and config columns hold JSON text.  A String of a
\* tag or a key, and a JSON text, is the sequence of its characters.
RECURSIVE concat(_)
concat(ss) == IF Len(ss) = 0 THEN <<>> ELSE Head(ss) \o concat(Tail(ss))
RECURSIVE join(_)
join(ss) ==
    IF Len(ss) = 0 THEN <<>>
    ELSE IF Len(ss) = 1 THEN Head(ss)
    ELSE Head(ss) \o <<",">> \o join(Tail(ss))

Digits == <<"0", "1", "2", "3", "4", "5", "6", "7", "8", "9">>
RECURSIVE format_number(_)
format_number(n) ==
    IF n < 10 THEN <<Digits[n + 1]>>
    ELSE format_number(n \div 10) \o <<Digits[(n % 10) + 1]>>

\* serde_json writes a string between quotes with ", \ and the control
\* characters escaped.
format_escaped_char_raw(ch) == <<ch>>
format_escaped_char(ch) ==
    CASE ch = "\"" -> <<"\\", "\"">>
      [] ch = "\\" -> <<"\\", "\\">>
      [] ch = "\n" -> <<"\\", "n">>
      [] OTHER -> <<ch>>
format_escaped_str(str) ==
    <<"\"">> \o concat([i \in 1..Len(str) |-> format_escaped_char(str[i])])
            \o <<"\"">>

\* serde_json::to_string of a Vec<String>.
to_string_vec(v) ==
    <<"[">> \o join([i \in 1..Len(v) |-> format_escaped_str(v[i])]) \o <<"]">>

\* A serde_json::Value of the config map: null, a boolean, an unsigned
\* integer or a string.
Null == [null |-> TRUE]
Bool(b) == [bool |-> b]
Number(n) == [number |-> n]
String(str) == [string |-> str]
to_string_value(v) ==
    CASE "null" \in DOMAIN v -> <<"n", "u", "l", "l">>
      [] "bool" \in DOMAIN v ->
            IF v.bool THEN <<"t", "r", "u", "e">> ELSE <<"f", "a", "l", "s", "e">>
      [] "number" \in DOMAIN v -> format_number(v.number)
      [] "string" \in DOMAIN v -> format_escaped_str(v.string)

\* serde_json::to_string of a HashMap<String, Value>: the entries in the
\* iteration order of the map, which is any order of its keys.
IterationOrders(map) ==
    {o \in [1..Cardinality(DOMAIN map) -> DOMAIN map] :
        \A i, j \in DOMAIN o : o[i] = o[j] => i = j}
to_string_map(map, order) ==
    <<"{">> \o join([i \in 1..Len(order) |->
                        format_escaped_str(order[i]) \o <<":">>
                            \o to_string_value(map[order[i]])])
          \o <<"}">>

\* The parser: every step takes the text left and gives the value read and
\* the text after it, or fails.
Parsed(v, rest) == [ok |-> TRUE, val |-> v, rest |-> rest]
ParseError == [ok |-> FALSE, val |-> "none", rest |-> <<>>]
StartsWith(t, prefix) ==
    /\ Len(t) >= Len(prefix)
    /\ SubSeq(t, 1, Len(prefix)) = prefix
Drop(t, n) == SubSeq(t, n + 1, Len(t))

RECURSIVE parse_whitespace(_)
parse_whitespace(t) ==
    IF Len(t) > 0 /\ Head(t) = " " THEN parse_whitespace(Tail(t)) ELSE t

\* The characters of a string up to the closing quote.
RECURSIVE parse_str_body(_, _)
parse_str_body(t, acc) ==
    IF Len(t) = 0 THEN ParseError
    ELSE IF Head(t) = "\"" THEN Parsed(acc, Tail(t))
    ELSE IF Head(t) = "\n" THEN ParseError
    ELSE IF Head(t) = "\\"
    THEN IF Len(t) < 2 THEN ParseError
         ELSE IF t[2] = "\"" THEN parse_str_body(Drop(t, 2), Append(acc, "\""))
         ELSE IF t[2] = "\\" THEN parse_str_body(Drop(t, 2), Append(acc, "\\"))
         ELSE IF t[2] = "n" THEN parse_str_body(Drop(t, 2), Append(acc, "\n"))
         ELSE ParseError
    ELSE parse_str_body(Tail(t), Append(acc, Head(t)))
parse_str(t) ==
    IF Len(t) > 0 /\ Head(t) = "\"" THEN parse_str_body(Tail(t), <<>>)
    ELSE ParseError

IsDigit(ch) == \E i \in 1..Len(Digits) : Digits[i] = ch
DigitValue(ch) == (CHOOSE i \in 1..Len(Digits) : Digits[i] = ch) - 1
RECURSIVE parse_number_body(_, _)
parse_number_body(t, acc) ==
    IF Len(t) > 0 /\ IsDigit(Head(t))
    THEN parse_number_body(Tail(t), acc * 10 + DigitValue(Head(t)))
    ELSE Parsed(Number(acc), t)
parse_number(t) ==
    IF Head(t) = "0"
    THEN IF Len(t) > 1 /\ IsDigit(t[2]) THEN ParseError
         ELSE Parsed(Number(0), Tail(t))
    ELSE parse_number_body(t, 0)

parse_value(t) ==
    IF Len(t) = 0 THEN ParseError
    ELSE IF Head(t) = "\""
    THEN LET r == parse_str(t)
         IN  IF r.ok THEN Parsed(String(r.val), r.rest) ELSE ParseError
    ELSE IF IsDigit(Head(t)) THEN parse_number(t)
    ELSE IF StartsWith(t, <<"n", "u", "l", "l">>) THEN Parsed(Null, Drop(t, 4))
    ELSE IF StartsWith(t, <<"t", "r", "u", "e">>) THEN Parsed(Bool(TRUE), Drop(t, 4))
    ELSE IF StartsWith(t, <<"f", "a", "l", "s", "e">>)
    THEN Parsed(Bool(FALSE), Drop(t, 5))
    ELSE ParseError

\* The elements of an array of strings after the opening bracket.
RECURSIVE parse_seq(_, _)
parse_seq(t, acc) ==
    LET r == parse_str(parse_whitespace(t))
    IN  IF ~r.ok THEN ParseError
        ELSE LET u == parse_whitespace(r.rest)
             IN  IF Len(u) = 0 THEN ParseError
                 ELSE IF Head(u) = "," THEN parse_seq(Tail(u), Append(acc, r.val))
                 ELSE IF Head(u) = "]" THEN Parsed(Append(acc, r.val), Tail(u))
                 ELSE ParseError

\* The entries of an object after the opening brace; a repeated key keeps
\* its last value.
RECURSIVE parse_map(_, _)
parse_map(t, acc) ==
    LET k == parse_str(parse_whitespace(t))
    IN  IF ~k.ok THEN ParseError
        ELSE LET u == parse_whitespace(k.rest)
             IN  IF Len(u) = 0 \/ Head(u) # ":" THEN ParseError
                 ELSE LET v == parse_value(parse_whitespace(Tail(u)))
                      IN  IF ~v.ok THEN ParseError
                          ELSE LET w == parse_whitespace(v.rest)
                                   map == (k.val :> v.val) @@ acc
                               IN  IF Len(w) = 0 THEN ParseError
                                   ELSE IF Head(w) = "," THEN parse_map(Tail(w), map)
                                   ELSE IF Head(w) = "}" THEN Parsed(map, Tail(w))
                                   ELSE ParseError

\* serde_json::from_str: one value, then nothing but whitespace.
end(r) ==
    IF r.ok /\ Len(parse_whitespace(r.rest)) = 0 THEN Ok(r.val) ELSE Err
EmptyMap == [k \in {} |-> Null]
from_str_vec(text) ==
    LET t == parse_whitespace(text)
    IN  IF Len(t) = 0 \/ Head(t) # "[" THEN Err
        ELSE LET u == parse_whitespace(Tail(t))
             IN  IF Len(u) > 0 /\ Head(u) = "]" THEN end(Parsed(<<>>, Tail(u)))
                 ELSE end(parse_seq(u, <<>>))
from_str_map(text) ==
    LET t == parse_whitespace(text)
    IN  IF Len(t) = 0 \/ Head(t) # "{" THEN Err
        ELSE LET u == parse_whitespace(Tail(t))
             IN  IF Len(u) > 0 /\ Head(u) = "}" THEN end(Parsed(EmptyMap, Tail(u)))
                 ELSE end(parse_map(u, EmptyMap))

\* ------------------------------------------------------ the conversions
\* impl TryFrom<BasicModel> for ModelsTable; order is the iteration order
\* of the config map.
ModelsTable_try_from(basic_model, order) ==
    Ok([id |-> basic_model.id,
        name |-> basic_model.name,
        display_name |-> basic_model.display_name,
        description |-> basic_model.description,
        version |-> basic_model.version,
        model_type |-> BasicModelType_to_string(basic_model.model_type),
        size_category |-> BasicSizeCategory_to_string(basic_model.size_category),
        file_size |-> as_i64(basic_model.file_size),
        provider |-> basic_model.provider,
        license |-> basic_model.license,
        tags |-> to_string_vec(basic_model.tags),
        languages |-> to_string_vec(basic_model.languages),
        file_path |-> basic_model.file_path,
        checksum |-> basic_model.checksum,
        download_url |-> basic_model.download_url,
        config |-> to_string_map(basic_model.config, order),
        rating |-> basic_model.rating,
        download_count |-> as_i64(basic_model.download_count),
        is_official |-> basic_model.is_official,
        created_at |-> basic_model.created_at,
        updated_at |-> basic_model.updated_at])

\* impl TryFrom<ModelsTable> for BasicModel.
BasicModel_try_from(db_model) ==
    LET tags == from_str_vec(db_model.tags)
        languages == from_str_vec(db_model.languages)
        config == from_str_map(db_model.config)
        model_type == BasicModelType_from_str(db_model.model_type)
        size_category == BasicSizeCategory_match(db_model.size_category)
    IN  IF tags.res = "Err" THEN Err
        ELSE IF languages.res = "Err" THEN Err
        ELSE IF config.res = "Err" THEN Err
        ELSE IF model_type.res = "Err" THEN Err
        ELSE IF size_category.res = "Err" THEN Err
        ELSE Ok([id |-> db_model.id,
                 name |-> db_model.name,
                 display_name |-> db_model.display_name,
                 description |-> db_model.description,
                 version |-> db_model.version,
                 model_type |-> model_type.ret,
                 size_category |-> size_category.ret,
                 file_size |-> as_u64(db_model.file_size),
                 provider |-> db_model.provider,
                 license |-> db_model.license,
                 tags |-> tags.ret,
                 languages |-> languages.ret,
                 file_path |-> db_model.file_path,
                 checksum |-> db_model.checksum,
                 download_url |-> db_model.download_url,
                 config |-> config.ret,
                 rating |-> db_model.rating,
                 download_count |-> as_u64(db_model.download_count),
                 is_official |-> db_model.is_official,
                 created_at |-> db_model.created_at,
                 updated_at |-> db_model.updated_at])

\* impl TryFrom<BasicInstalledModel> for InstalledModelsTable.
InstalledModelsTable_try_from(basic_installed) ==
    Ok([id |-> basic_installed.id,
        model_id |-> basic_installed.model.id,
        install_path |-> basic_installed.install_path,
        installed_at |-> basic_installed.installed_at,
        status |-> BasicModelStatus_to_string(basic_installed.status),
        port |-> IF is_some(basic_installed.port)
                 THEN Some(as_i32(unwrap(basic_installed.port))) ELSE None,
        process_id |-> IF is_some(basic_installed.process_id)
                       THEN Some(as_i32(unwrap(basic_installed.process_id)))
                       ELSE None,
        last_used |-> basic_installed.last_used,
        usage_count |-> as_i64(basic_installed.usage_count),
        created_at |-> basic_installed.created_at,
        updated_at |-> basic_installed.updated_at])

\* db_to_basic_installed_model((db_model, db_installed)).
db_to_basic_installed_model(db_model, db_installed) ==
    LET basic_model == BasicModel_try_from(db_model)
        status == BasicModelStatus_from_str(db_installed.status)
    IN  IF basic_model.res = "Err" THEN Err
        ELSE IF status.res = "Err" THEN Err
        ELSE Ok([id |-> db_installed.id,
                 model |-> basic_model.ret,
                 install_path |-> db_installed.install_path,
                 installed_at |-> db_installed.installed_at,
                 status |-> status.ret,
                 port |-> IF is_some(db_installed.port)
                          THEN Some(as_u32(unwrap(db_installed.port))) ELSE None,
                 process_id |-> IF is_some(db_installed.process_id)
                                THEN Some(as_u32(unwrap(db_installed.process_id)))
                                ELSE None,
                 last_used |-> db_installed.last_used,
                 usage_count |-> as_u64(db_installed.usage_count),
                 created_at |-> db_installed.created_at,
                 updated_at |-> db_installed.updated_at])

\* ModelsTable::new(name, display_name, version, model_type, provider,
\* file_size): id is the fresh Uuid, t the time of the call.
ModelsTable_new(id, name, display_name, version, model_type, provider, file_size, t) ==
    [id |-> id,
     name |-> name,
     display_name |-> display_name,
     description |-> None,
     version |-> version,
     model_type |-> model_type,
     size_category |-> calculate_size_category(file_size),
     file_size |-> file_size,
     provider |-> provider,
     license |-> None,
     tags |-> <<"[", "]">>,
     languages |-> <<"[", "]">>,
     file_path |-> None,
     checksum |-> None,
     download_url |-> None,
     config |-> <<"{", "}">>,
     rating |-> None,
     download_count |-> I64(0),
     is_official |-> FALSE,
     created_at |-> t,
     updated_at |-> t]

\* create_test_basic_model(name, model_type, file_size): the BasicModel of
\* the service tests, with the category of its file size.
create_test_basic_model(id, name, model_type, file_size, t) ==
    [id |-> id,
     name |-> name,
     display_name |-> "Display",
     description |-> Some("Description"),
     version |-> "1.0.0",
     model_type |-> model_type,
     size_category |-> file_size_to_category(file_size),
     file_size |-> file_size,
     provider |-> "TestProvider",
     license |-> Some("MIT"),
     tags |-> << <<"t", "e", "s", "t">>, <<"s", "a", "m", "p", "l", "e">> >>,
     languages |-> << <<"E", "n", "g", "l", "i", "s", "h">> >>,
     file_path |-> None,
     checksum |-> None,
     download_url |-> Some("https://example.com/model"),
     config |-> EmptyMap,
     rating |-> None,
     download_count |-> Zero,
     is_official |-> FALSE,
     created_at |-> t,
     updated_at |-> t]

\* Option<String> values of the description field.
Descriptions == {None, Some(""), Some("d")}

\* The ModelsTable struct with the columns the table model keeps: id, name,
\* display_name, one nullable text column, model_type, size_category,
\* file_size, download_count, is_official, created_at and updated_at.  With(...) is the struct with
\* the given values in size_category, file_size, download_count and
\* updated_at.
With(idname, size_category, file_size, download_count, updated_at) ==
    [id |-> idname.id, name |-> idname.name, display_name |-> "Display",
     description |-> idname.description, model_type |-> "Chat",
     size_category |-> size_category, file_size |-> file_size,
     download_count |-> download_count, is_official |-> FALSE,
     created_at |-> 0, updated_at |-> updated_at]
ModelsTable ==
    {With(k, "Small", I64(0), I64(0), 0) :
        k \in [id : ModelIds, name : Names, description : Descriptions]}

\* The service Model values the service callers pass in. The service
\* properties do not depend on the data columns, so the callers of the
\* service all pass the same description; the repository callers of
\* RepoSpec vary it over Descriptions.
Model ==
    {With(k, "Small", I64(0), I64(0), 0) :
        k \in [id : ModelIds, name : Names, description : {Some("d")}]}

\* The InstalledModel value a service caller passes in.
InstalledModel ==
    [model_id : ModelIds, status : {"Stopped"}, usage_count : 0..MaxUsage]

VARIABLES
    models,      \* rows of table models
    installed,   \* rows of table installed_models
    pc,          \* per caller: the await it is suspended at
    op,          \* per caller: the operation in progress / just finished
    arg,         \* per caller: the argument of that operation
    res,         \* per caller: the Result of the finished operation
    ret,         \* per caller: the value carried by an Ok result (Option)
    writes,      \* per caller: write statements issued by the operation
    now,         \* the clock read by Utc::now()
    history,     \* versions recorded in table _migration_history
    executed     \* per migration script: how often it has been executed

vars == <<models, installed, pc, op, arg, res, ret, writes, now, history, executed>>

\* ------------------------------------------------------- storage engine
\* Lookup of rows by a column value (SELECT * FROM t WHERE col = v).
rows_by_id(tbl, id) == {r \in tbl : r.id = id}
rows_by_name(tbl, name) == {r \in tbl : r.name = name}
rows_by_model_id(tbl, model_id) == {r \in tbl : r.model_id = model_id}

\* Variants of models_constraints_ok: a table without UNIQUE on name, and a
\* table without the primary key.
models_constraints_ok_no_unique_name(tbl, row) == rows_by_id(tbl, row.id) = {}
models_constraints_ok_no_primary_key(tbl, row) == rows_by_name(tbl, row.name) = {}
\* models: id UUID PRIMARY KEY, name VARCHAR UNIQUE NOT NULL.
models_constraints_ok(tbl, row) ==
    /\ rows_by_id(tbl, row.id) = {}
    /\ rows_by_name(tbl, row.name) = {}

\* Variant of installed_constraints_ok: a table without the unique index.
installed_constraints_ok_no_unique_index(mtbl, itbl, row) ==
    rows_by_id(mtbl, row.model_id) # {}
\* Variant of installed_constraints_ok: a table without the foreign key.
installed_constraints_ok_no_foreign_key(mtbl, itbl, row) ==
    rows_by_model_id(itbl, row.model_id) = {}
\* installed_models: model_id REFERENCES models(id),
\* UNIQUE INDEX idx_installed_models_unique_model ON installed_models(model_id).
\* The primary key id is a fresh Uuid::new_v4() on every insert and never
\* rejects a row; the rows are modelled without it.
installed_constraints_ok(mtbl, itbl, row) ==
    /\ rows_by_model_id(itbl, row.model_id) = {}
    /\ rows_by_id(mtbl, row.model_id) # {}

\* model_id ... REFERENCES models(id) ON DELETE CASCADE: the installed rows
\* that survive the deletion of model `id`.
on_delete_cascade(itbl, id) == {r \in itbl : r.model_id # id}

\* ----------------------------------------------------------- row mapping
\* The parameter list of create_model / update_model: Option columns are
\* bound as unwrap_or_default(), so None is stored as ''.
model_params(model) ==
    [id |-> model.id,
     name |-> model.name,
     display_name |-> model.display_name,
     description |-> unwrap_or_default(model.description),
     model_type |-> model.model_type,
     size_category |-> model.size_category,
     file_size |-> model.file_size,
     download_count |-> model.download_count,
     is_official |-> IF model.is_official THEN "true" ELSE "false",
     created_at |-> model.created_at,
     updated_at |-> model.updated_at]

\* row_to_models_table: an Option column is read back with
\* filter(|s| !s.is_empty()), so '' becomes None.
row_to_models_table(row) ==
    [id |-> row.id,
     name |-> row.name,
     display_name |-> row.display_name,
     description |-> IF row.description = "" THEN None ELSE Some(row.description),
     model_type |-> row.model_type,
     size_category |-> row.size_category,
     file_size |-> row.file_size,
     download_count |-> row.download_count,
     is_official |-> row.is_official = "true" \/ row.is_official = "1",
     created_at |-> row.created_at,
     updated_at |-> row.updated_at]

\* InstalledModelsTable::new(model_id, install_path).
InstalledModelsTable_new(model_id) ==
    [model_id |-> model_id, status |-> "Stopped", usage_count |-> 0]

\* service_model_to_db: the service Model as a ModelsTable struct.
service_model_to_db(model) ==
    [id |-> model.id, name |-> model.name, display_name |-> model.display_name,
     description |-> model.description, model_type |-> model.model_type,
     size_category |-> model.size_category, file_size |-> model.file_size,
     download_count |-> model.download_count, is_official |-> model.is_official,
     created_at |-> model.created_at,
     updated_at |-> model.updated_at]

\* ModelsTable::mark_updated: updated_at = Utc::now().
mark_updated(model, t) == [model EXCEPT !.updated_at = t]

\* service_installed_model_to_db: the installed_models row of an InstalledModel.
service_installed_model_to_db(installed_model) ==
    [model_id |-> installed_model.model_id,
     status |-> installed_model.status,
     usage_count |-> installed_model.usage_count]

\* ------------------------------------------------- repository statements
\* Each operator is one statement: it yields the Result (res, ret) and the
\* tables after the statement.

\* INSERT INTO models (...) VALUES (...); Ok(model.clone()).
create_model(mtbl, model) ==
    LET row == model_params(model)
    IN  IF models_constraints_ok(mtbl, row)
        THEN [res |-> "Ok", ret |-> model, models |-> mtbl \cup {row}]
        ELSE [res |-> "Err", ret |-> "none", models |-> mtbl]

\* Variant of get_model_by_id that selects on the wrong column.
get_model_by_id_wrong_column(mtbl, id) ==
    LET rows == {r \in mtbl : r.id # id}
    IN  IF rows = {} THEN None ELSE Some(row_to_models_table(CHOOSE r \in rows : TRUE))
\* SELECT * FROM models WHERE id = $1; rows[0] when not empty.
get_model_by_id(mtbl, id) ==
    LET rows == rows_by_id(mtbl, id)
    IN  IF rows = {} THEN None ELSE Some(row_to_models_table(CHOOSE r \in rows : TRUE))

\* Variant of get_model_by_name that never finds a row.
get_model_by_name_finds_nothing(mtbl, name) == None
\* SELECT * FROM models WHERE name = $1; rows[0] when not empty.
get_model_by_name(mtbl, name) ==
    LET rows == rows_by_name(mtbl, name)
    IN  IF rows = {} THEN None ELSE Some(row_to_models_table(CHOOSE r \in rows : TRUE))

\* Variant of update_model whose UPDATE also sets the name column.
update_model_sets_name(mtbl, model) ==
    LET p == model_params(model)
    IN  [res |-> "Ok", ret |-> model,
         models |-> {IF r.id = p.id THEN p ELSE r : r \in mtbl}]
\* Variant of update_model whose UPDATE leaves updated_at alone.
update_model_keeps_updated_at(mtbl, model) ==
    LET p == model_params(model)
    IN  [res |-> "Ok", ret |-> model,
         models |-> {IF r.id = p.id
                     THEN [p EXCEPT !.id = r.id, !.name = r.name,
                                    !.created_at = r.created_at,
                                    !.updated_at = r.updated_at]
                     ELSE r : r \in mtbl}]
\* UPDATE models SET <every column but id, name and created_at>
\* WHERE id = $1; zero rows affected is not an error; Ok(model.clone()).
update_model(mtbl, model) ==
    LET p == model_params(model)
    IN  [res |-> "Ok", ret |-> model,
         models |-> {IF r.id = p.id
                     THEN [p EXCEPT !.id = r.id, !.name = r.name,
                                    !.created_at = r.created_at]
                     ELSE r : r \in mtbl}]

\* SQLite LIKE: % is any run of characters, _ is any one character, and
\* the ASCII letters match in either case.  A text is the sequence of its
\* characters.
UpperCase == <<"A", "B", "C", "D", "E", "F", "G", "H", "I", "J", "K", "L", "M">>
                \o <<"N", "O", "P", "Q", "R", "S", "T", "U", "V", "W", "X", "Y", "Z">>
LowerCase == <<"a", "b", "c", "d", "e", "f", "g", "h", "i", "j", "k", "l", "m">>
                \o <<"n", "o", "p", "q", "r", "s", "t", "u", "v", "w", "x", "y", "z">>
like_fold(ch) ==
    IF \E i \in DOMAIN UpperCase : UpperCase[i] = ch
    THEN LowerCase[CHOOSE i \in DOMAIN UpperCase : UpperCase[i] = ch]
    ELSE ch
RECURSIVE like(_, _)
like(pattern, text) ==
    IF Len(pattern) = 0 THEN Len(text) = 0
    ELSE IF Head(pattern) = "%"
    THEN \/ like(Tail(pattern), text)
         \/ Len(text) > 0 /\ like(pattern, Tail(text))
    ELSE /\ Len(text) > 0
         /\ Head(pattern) = "_" \/ like_fold(Head(pattern)) = like_fold(Head(text))
         /\ like(Tail(pattern), Tail(text))

\* SELECT * FROM models WHERE name LIKE $1 OR display_name LIKE $1
\* OR description LIKE $1 ORDER BY created_at DESC LIMIT $2, with
\* $1 = format!("%{}%", query) and $2 = limit.unwrap_or(50).to_string():
\* every sequence the statement can return, rows of equal created_at in
\* either order.
search_models(mtbl, query, limit) ==
    LET search_pattern == <<"%">> \o query \o <<"%">>
        limit_val == format_number(IF is_some(limit) THEN unwrap(limit) ELSE 50)
        cap == parse_number_body(limit_val, 0).val.number
        rows == {r \in mtbl : \/ like(search_pattern, r.name)
                              \/ like(search_pattern, r.display_name)
                              \/ like(search_pattern, r.description)}
        n == IF Cardinality(rows) < cap THEN Cardinality(rows) ELSE cap
    IN  {[i \in 1..n |-> row_to_models_table(o[i])] :
            o \in {q \in [1..n -> rows] :
                    /\ \A i, j \in 1..n : q[i] = q[j] => i = j
                    /\ \A i, j \in 1..n : i < j => q[i].created_at >= q[j].created_at
                    /\ \A r \in rows : (\A i \in 1..n : q[i] # r) =>
                            \A i \in 1..n : q[i].created_at >= r.created_at}}

\* Variant of delete_model that reports a removed row whatever it matched.
delete_model_reports_true(mtbl, itbl, id) ==
    [res |-> "Ok",
     ret |-> TRUE,
     models |-> mtbl \ rows_by_id(mtbl, id),
     installed |-> IF rows_by_id(mtbl, id) # {} THEN on_delete_cascade(itbl, id) ELSE itbl]
\* Variant of delete_model whose DELETE matches no row.
delete_model_matches_nothing(mtbl, itbl, id) ==
    [res |-> "Ok", ret |-> FALSE, models |-> mtbl, installed |-> itbl]
\* DELETE FROM models WHERE id = $1; Ok(rows_affected > 0).  The foreign
\* key of installed_models cascades.
delete_model(mtbl, itbl, id) ==
    [res |-> "Ok",
     ret |-> (rows_by_id(mtbl, id) # {}),
     models |-> mtbl \ rows_by_id(mtbl, id),
     installed |-> IF rows_by_id(mtbl, id) # {} THEN on_delete_cascade(itbl, id) ELSE itbl]

\* INSERT INTO installed_models (...) VALUES (...).
insert_installed(mtbl, itbl, row) ==
    IF installed_constraints_ok(mtbl, itbl, row)
    THEN [res |-> "Ok", ret |-> row, installed |-> itbl \cup {row}]
    ELSE [res |-> "Err", ret |-> "none", installed |-> itbl]

\* ModelsRepository::install_model(model_id, install_path).
install_model(mtbl, itbl, model_id) ==
    insert_installed(mtbl, itbl, InstalledModelsTable_new(model_id))

\* The repository methods the service calls on installed_models.
get_installed_model_by_model_id(itbl, model_id) ==
    LET rows == rows_by_model_id(itbl, model_id)
    IN  IF rows = {} THEN None ELSE Some(CHOOSE r \in rows : TRUE)

update_installed_model(itbl, row) ==
    [res |-> "Ok", ret |-> "unit",
     installed |-> {IF r.model_id = row.model_id
                    THEN [r EXCEPT !.status = row.status,
                                   !.usage_count = row.usage_count]
                    ELSE r : r \in itbl}]

uninstall_model(itbl, model_id) ==
    [res |-> "Ok", ret |-> "unit", installed |-> itbl \ rows_by_model_id(itbl, model_id)]

update_model_usage(itbl, model_id) ==
    [res |-> "Ok", ret |-> "unit",
     installed |-> {IF r.model_id = model_id
                    THEN [r EXCEPT !.usage_count = r.usage_count + 1]
                    ELSE r : r \in itbl}]

\* The repository method increment_download_count:
\* UPDATE models SET download_count = download_count + 1 WHERE id = $1.
increment_download_count(mtbl, id) ==
    [res |-> "Ok", ret |-> "unit",
     models |-> {IF r.id = id
                 THEN [r EXCEPT !.download_count = i64_inc(r.download_count)]
                 ELSE r : r \in mtbl}]

\* impl From<sqlx::Error> for ModelsServiceError (#[from]): the `?` on a
\* repository call turns its error into DatabaseError.
\* (Variant: the error reported as ModelAlreadyExists.)
service_result_already_exists(r) == IF r = "Ok" THEN "Ok" ELSE "ModelAlreadyExists"
service_result(r) == IF r = "Ok" THEN "Ok" ELSE "DatabaseError"


\* ------------------------------------------------------------- callers
Init ==
    /\ models = {}
    /\ installed = {}
    /\ pc = [c \in Callers |-> "idle"]
    /\ op = [c \in Callers |-> "none"]
    /\ arg = [c \in Callers |-> "none"]
    /\ res = [c \in Callers |-> "none"]
    /\ ret = [c \in Callers |-> "none"]
    /\ writes = [c \in Callers |-> 0]
    /\ now = 0
    /\ history = {}
    /\ executed = [v \in Versions |-> 0]

\* The call of operation o with argument a suspends at await `label`.
Suspend(c, o, a, label) ==
    /\ pc' = [pc EXCEPT ![c] = label]
    /\ op' = [op EXCEPT ![c] = o]
    /\ arg' = [arg EXCEPT ![c] = a]
    /\ res' = [res EXCEPT ![c] = "pending"]
    /\ ret' = [ret EXCEPT ![c] = "none"]
    /\ now' = now
    /\ UNCHANGED <<history, executed>>

\* The operation o of caller c returns r carrying value v; the caller keeps
\* the argument a and the result until its next call.
Finish(c, o, a, r, v) ==
    /\ pc' = [pc EXCEPT ![c] = "idle"]
    /\ op' = [op EXCEPT ![c] = o]
    /\ arg' = [arg EXCEPT ![c] = a]
    /\ res' = [res EXCEPT ![c] = r]
    /\ ret' = [ret EXCEPT ![c] = v]
    /\ now' = now
    /\ UNCHANGED <<history, executed>>

NoWrite(c) == writes' = [writes EXCEPT ![c] = 0]
OneMoreWrite(c) == writes' = [writes EXCEPT ![c] = writes[c] + 1]

\* ---------------------------------------------------------- ModelsService
\* The service operations return Result<(), ModelsServiceError>; the caller
\* drops the argument when the call returns.

\* create_model: get_model_by_name, then (a later statement) the INSERT.
ModelsService_create_model(c, model) ==
    /\ pc[c] = "idle"
    /\ IF is_some(get_model_by_name(models, model.name))
       THEN Finish(c, "create_model", "none", "ModelAlreadyExists", "none")
       ELSE Suspend(c, "create_model", model, "create_model_insert")
    /\ NoWrite(c)
    /\ UNCHANGED <<models, installed>>

ModelsService_create_model_insert(c) ==
    /\ pc[c] = "create_model_insert"
    /\ LET r == create_model(models, service_model_to_db(arg[c]))
       IN  /\ models' = r.models
           /\ Finish(c, "create_model", "none", service_result(r.res), "none")
    /\ OneMoreWrite(c)
    /\ UNCHANGED installed

\* update_model: get_model_by_id, then the UPDATE.
ModelsService_update_model(c, model) ==
    /\ pc[c] = "idle"
    /\ IF is_none(get_model_by_id(models, model.id))
       THEN Finish(c, "update_model", "none", "ModelNotFound", "none")
       ELSE Suspend(c, "update_model", model, "update_model_update")
    /\ NoWrite(c)
    /\ UNCHANGED <<models, installed>>

ModelsService_update_model_update(c) ==
    /\ pc[c] = "update_model_update"
    /\ LET r == update_model(models, mark_updated(service_model_to_db(arg[c]), now))
       IN  /\ models' = r.models
           /\ Finish(c, "update_model", "none", service_result(r.res), "none")
    /\ OneMoreWrite(c)
    /\ UNCHANGED installed

\* delete_model: get_installed_model_by_model_id, get_model_by_id, DELETE.
ModelsService_delete_model(c, id) ==
    /\ pc[c] = "idle"
    /\ IF is_some(get_installed_model_by_model_id(installed, id))
       THEN Finish(c, "delete_model", "none", "ModelHasInstalledInstances", "none")
       ELSE Suspend(c, "delete_model", id, "delete_model_check_model")
    /\ NoWrite(c)
    /\ UNCHANGED <<models, installed>>

ModelsService_delete_model_check_model(c) ==
    /\ pc[c] = "delete_model_check_model"
    /\ IF is_none(get_model_by_id(models, arg[c]))
       THEN Finish(c, "delete_model", "none", "ModelNotFound", "none")
       ELSE Suspend(c, "delete_model", arg[c], "delete_model_delete")
    /\ UNCHANGED <<models, installed, writes>>

ModelsService_delete_model_delete(c) ==
    /\ pc[c] = "delete_model_delete"
    /\ LET r == delete_model(models, installed, arg[c])
       IN  /\ models' = r.models
           /\ installed' = r.installed
           /\ Finish(c, "delete_model", "none", service_result(r.res), "none")
    /\ OneMoreWrite(c)

\* install_model: get_model_by_id, get_installed_model_by_model_id, INSERT.
ModelsService_install_model(c, installed_model) ==
    /\ pc[c] = "idle"
    /\ IF is_none(get_model_by_id(models, installed_model.model_id))
       THEN Finish(c, "install_model", "none", "ModelNotFound", "none")
       ELSE Suspend(c, "install_model", installed_model, "install_model_check_installed")
    /\ NoWrite(c)
    /\ UNCHANGED <<models, installed>>

ModelsService_install_model_check_installed(c) ==
    /\ pc[c] = "install_model_check_installed"
    /\ IF is_some(get_installed_model_by_model_id(installed, arg[c].model_id))
       THEN Finish(c, "install_model", "none", "ModelAlreadyInstalled", "none")
       ELSE Suspend(c, "install_model", arg[c], "install_model_insert")
    /\ UNCHANGED <<models, installed, writes>>

ModelsService_install_model_insert(c) ==
    /\ pc[c] = "install_model_insert"
    /\ LET r == insert_installed(models, installed, service_installed_model_to_db(arg[c]))
       IN  /\ installed' = r.installed
           /\ Finish(c, "install_model", "none", service_result(r.res), "none")
    /\ OneMoreWrite(c)
    /\ UNCHANGED models

\* update_installed_model: get_installed_model_by_model_id, then the UPDATE.
ModelsService_update_installed_model(c, installed_model) ==
    /\ pc[c] = "idle"
    /\ IF is_none(get_installed_model_by_model_id(installed, installed_model.model_id))
       THEN Finish(c, "update_installed_model", "none", "ModelNotInstalled", "none")
       ELSE Suspend(c, "update_installed_model", installed_model,
                    "update_installed_model_update")
    /\ NoWrite(c)
    /\ UNCHANGED <<models, installed>>

ModelsService_update_installed_model_update(c) ==
    /\ pc[c] = "update_installed_model_update"
    /\ LET r == update_installed_model(installed, service_installed_model_to_db(arg[c]))
       IN  /\ installed' = r.installed
           /\ Finish(c, "update_installed_model", "none", service_result(r.res), "none")
    /\ OneMoreWrite(c)
    /\ UNCHANGED models

\* uninstall_model: get_installed_model_by_model_id, then the DELETE.
\* (Variant of the first step that skips the check.)
ModelsService_uninstall_model_unguarded(c, model_id) ==
    /\ pc[c] = "idle"
    /\ Suspend(c, "uninstall_model", model_id, "uninstall_model_delete")
    /\ NoWrite(c)
    /\ UNCHANGED <<models, installed>>
ModelsService_uninstall_model(c, model_id) ==
    /\ pc[c] = "idle"
    /\ IF is_none(get_installed_model_by_model_id(installed, model_id))
       THEN Finish(c, "uninstall_model", "none", "ModelNotInstalled", "none")
       ELSE Suspend(c, "uninstall_model", model_id, "uninstall_model_delete")
    /\ NoWrite(c)
    /\ UNCHANGED <<models, installed>>

ModelsService_uninstall_model_delete(c) ==
    /\ pc[c] = "uninstall_model_delete"
    /\ LET r == uninstall_model(installed, arg[c])
       IN  /\ installed' = r.installed
           /\ Finish(c, "uninstall_model", "none", service_result(r.res), "none")
    /\ OneMoreWrite(c)
    /\ UNCHANGED models

\* update_model_usage: get_installed_model_by_model_id, then the UPDATE.
ModelsService_update_model_usage(c, model_id) ==
    /\ pc[c] = "idle"
    /\ IF is_none(get_installed_model_by_model_id(installed, model_id))
       THEN Finish(c, "update_model_usage", "none", "ModelNotInstalled", "none")
       ELSE Suspend(c, "update_model_usage", model_id, "update_model_usage_update")
    /\ NoWrite(c)
    /\ UNCHANGED <<models, installed>>

\* (The counter is capped: the UPDATE waits while the row is at MaxUsage.)
ModelsService_update_model_usage_update(c) ==
    /\ pc[c] = "update_model_usage_update"
    /\ \A r \in rows_by_model_id(installed, arg[c]) : r.usage_count < MaxUsage
    /\ LET r == update_model_usage(installed, arg[c])
       IN  /\ installed' = r.installed
           /\ Finish(c, "update_model_usage", "none", service_result(r.res), "none")
    /\ OneMoreWrite(c)
    /\ UNCHANGED models

Next ==
    \/ \E c \in Callers, model \in Model : ModelsService_create_model(c, model)
    \/ \E c \in Callers : ModelsService_create_model_insert(c)
    \/ \E c \in Callers, model \in Model : ModelsService_update_model(c, model)
    \/ \E c \in Callers : ModelsService_update_model_update(c)
    \/ \E c \in Callers, id \in ModelIds : ModelsService_delete_model(c, id)
    \/ \E c \in Callers : ModelsService_delete_model_check_model(c)
    \/ \E c \in Callers : ModelsService_delete_model_delete(c)
    \/ \E c \in Callers, i \in InstalledModel : ModelsService_install_model(c, i)
    \/ \E c \in Callers : ModelsService_install_model_check_installed(c)
    \/ \E c \in Callers : ModelsService_install_model_insert(c)
    \/ \E c \in Callers, i \in InstalledModel : ModelsService_update_installed_model(c, i)
    \/ \E c \in Callers : ModelsService_update_installed_model_update(c)
    \/ \E c \in Callers, id \in ModelIds : ModelsService_uninstall_model(c, id)
    \/ \E c \in Callers : ModelsService_uninstall_model_delete(c)
    \/ \E c \in Callers, id \in ModelIds : ModelsService_update_model_usage(c, id)
    \/ \E c \in Callers : ModelsService_update_model_usage_update(c)

\* The service under concurrent callers.
Spec == Init /\ [][Next]_vars

\* ------------------------------------------------------- ModelsRepository
\* Direct calls of the repository, as the repository tests make them: one
\* statement each.
ModelsRepository_create_model(c, model) ==
    /\ pc[c] = "idle"
    /\ LET r == create_model(models, model)
       IN  /\ models' = r.models
           /\ Finish(c, "create_model", model, r.res, r.ret)
    /\ UNCHANGED <<installed, writes>>

ModelsRepository_get_model_by_id(c, id) ==
    /\ pc[c] = "idle"
    /\ Finish(c, "get_model_by_id", id, "Ok", get_model_by_id(models, id))
    /\ UNCHANGED <<models, installed, writes>>

ModelsRepository_get_model_by_name(c, name) ==
    /\ pc[c] = "idle"
    /\ Finish(c, "get_model_by_name", name, "Ok", get_model_by_name(models, name))
    /\ UNCHANGED <<models, installed, writes>>

ModelsRepository_update_model(c, model) ==
    /\ pc[c] = "idle"
    /\ LET r == update_model(models, model)
       IN  /\ models' = r.models
           /\ Finish(c, "update_model", model, r.res, r.ret)
    /\ UNCHANGED <<installed, writes>>

ModelsRepository_delete_model(c, id) ==
    /\ pc[c] = "idle"
    /\ LET r == delete_model(models, installed, id)
       IN  /\ models' = r.models
           /\ installed' = r.installed
           /\ Finish(c, "delete_model", id, r.res, r.ret)
    /\ UNCHANGED writes

ModelsRepository_install_model(c, model_id) ==
    /\ pc[c] = "idle"
    /\ LET r == install_model(models, installed, model_id)
       IN  /\ installed' = r.installed
           /\ Finish(c, "install_model", model_id, r.res, r.ret)
    /\ UNCHANGED <<models, writes>>

\* Each repository call is one statement, so every interleaving of
\* concurrent repository callers is a sequence of calls; one caller makes
\* them.
RepoCallers == {"c1"}
\* The other caller.
ServiceCallers == Callers \ RepoCallers

RepoNext ==
    \/ \E c \in RepoCallers, model \in ModelsTable : ModelsRepository_create_model(c, model)
    \/ \E c \in RepoCallers, id \in ModelIds : ModelsRepository_get_model_by_id(c, id)
    \/ \E c \in RepoCallers, name \in Names : ModelsRepository_get_model_by_name(c, name)
    \/ \E c \in RepoCallers, model \in ModelsTable : ModelsRepository_update_model(c, model)
    \/ \E c \in RepoCallers, id \in ModelIds : ModelsRepository_delete_model(c, id)
    \/ \E c \in RepoCallers, id \in ModelIds : ModelsRepository_install_model(c, id)

RepoSpec == Init /\ [][RepoNext]_vars

\* --------------------------------------------------- the download counter
\* increment_download_count: get_model_by_id, then the UPDATE.
ModelsService_increment_download_count(c, id) ==
    /\ pc[c] = "idle"
    /\ IF is_none(get_model_by_id(models, id))
       THEN Finish(c, "increment_download_count", "none", "ModelNotFound", "none")
       ELSE Suspend(c, "increment_download_count", id, "increment_download_count_update")
    /\ NoWrite(c)
    /\ UNCHANGED <<models, installed>>

\* (The counter is capped: the UPDATE waits while the row is at MaxDownloads.)
ModelsService_increment_download_count_update(c) ==
    /\ pc[c] = "increment_download_count_update"
    /\ \A r \in rows_by_id(models, arg[c]) : i64_lt(r.download_count, I64(MaxDownloads))
    /\ LET r == increment_download_count(models, arg[c])
       IN  /\ models' = r.models
           /\ Finish(c, "increment_download_count", "none", service_result(r.res), "none")
    /\ OneMoreWrite(c)
    /\ UNCHANGED installed

\* Service Model values that differ in download_count.
CountedModels ==
    {With(k, "Small", I64(0), I64(n), 0) :
        k \in [id : ModelIds, name : Names, description : {Some("d")}],
        n \in 0..MaxDownloads}

\* Concurrent callers of create_model, update_model and
\* increment_download_count.
CountNext ==
    \/ \E c \in Callers, model \in CountedModels : ModelsService_create_model(c, model)
    \/ \E c \in Callers : ModelsService_create_model_insert(c)
    \/ \E c \in Callers, model \in CountedModels : ModelsService_update_model(c, model)
    \/ \E c \in Callers : ModelsService_update_model_update(c)
    \/ \E c \in Callers, id \in ModelIds : ModelsService_increment_download_count(c, id)
    \/ \E c \in Callers : ModelsService_increment_download_count_update(c)

CountSpec == Init /\ [][CountNext]_vars

\* ------------------------------------------------- the size categories
\* File sizes at and next to every breakpoint of the two functions, the
\* sizes of the tests, and the ends of the u64 and i64 ranges.
Breakpoints ==
    {GB(3), GB(10), GB(25), GiB(3), GiB(8), GiB(30), Word(Limb, 0, 0)}
FileSizes ==
    Breakpoints
    \cup {wrapping_dec(w) : w \in Breakpoints}
    \cup {wrapping_inc(w) : w \in Breakpoints}
    \cup {GB(1), GB(5), GB(15), GB(50), Zero, U64_MAX}

\* A caller evaluates file_size_to_category(size_bytes).
Call_file_size_to_category(c, size_bytes) ==
    /\ pc[c] = "idle"
    /\ Finish(c, "file_size_to_category", size_bytes, "Ok",
              file_size_to_category(size_bytes))
    /\ UNCHANGED <<models, installed, writes>>

\* A caller evaluates calculate_size_category(file_size).
Call_calculate_size_category(c, file_size) ==
    /\ pc[c] = "idle"
    /\ Finish(c, "calculate_size_category", file_size, "Ok",
              calculate_size_category(file_size))
    /\ UNCHANGED <<models, installed, writes>>

SizeNext ==
    \/ \E c \in Callers, w \in FileSizes : Call_file_size_to_category(c, w)
    \/ \E c \in Callers, w \in FileSizes : Call_calculate_size_category(c, as_i64(w))

SizeSpec == Init /\ [][SizeNext]_vars

\* ------------------------------------------- the stored size category
\* Rows are written by create_model, from ModelsTable::new or from the
\* conversion of a BasicModel that carries the category of its size, and by
\* update_model with a stored row whose file_size the caller has changed.
StoredSizes == {Zero, GB(5), GB(50)}
NewRows ==
    {ModelsTable_new(id, name, "Display", "1.0.0", "Chat", "TestProvider",
                     as_i64(w), now) :
        id \in ModelIds, name \in Names, w \in StoredSizes}
ConvertedRows ==
    {ModelsTable_try_from(create_test_basic_model(id, name, Chat, w, now),
                          <<>>).ret :
        id \in ModelIds, name \in Names, w \in StoredSizes}
ResizedRows ==
    {[row_to_models_table(r) EXCEPT !.file_size = as_i64(w)] :
        r \in models, w \in StoredSizes}

CategoryNext ==
    \/ \E c \in RepoCallers, model \in NewRows : ModelsRepository_create_model(c, model)
    \/ \E c \in RepoCallers, model \in ConvertedRows :
            ModelsRepository_create_model(c, model)
    \/ \E c \in RepoCallers, model \in ResizedRows :
            ModelsRepository_update_model(c, model)
    \/ \E c \in RepoCallers, id \in ModelIds : ModelsRepository_delete_model(c, id)

CategorySpec == Init /\ [][CategoryNext]_vars

\* ------------------------------------------------ calls of the conversions
\* BasicModel values: the model of the service tests with every model type
\* and category, with file sizes and download counts up to u64::MAX, with
\* the optional texts, and with tags, languages and config whose JSON text
\* needs escapes and separators.
TagLists ==
    {<<>>,
     << <<"a">>, <<"a">> >>,
     << <<"b">>, <<>>, <<"a">> >>,
     << <<"a", "\"", ",", "\\", "]", "\n", " ">> >>}
Configs ==
    {EmptyMap,
     <<"k">> :> Number(12),
     (<<"k">> :> String(<<"v", "\"", "}">>)) @@ (<<"k", ":">> :> Null),
     (<<>> :> Bool(TRUE)) @@ (<<"a", ",">> :> Bool(FALSE))}
TypedModels ==
    {[create_test_basic_model(1, "a", k[1], Zero, 0) EXCEPT !.size_category = k[2]] :
        k \in (BasicModelType \X {Small}) \cup ({Chat} \X BasicSizeCategory)}
SizedModels ==
    {[create_test_basic_model(1, "a", Chat, k[1], 0) EXCEPT !.download_count = k[2]] :
        k \in ({Zero, GB(5), I64_MAX, wrapping_inc(I64_MAX), U64_MAX} \X {Zero})
                \cup ({Zero} \X {wrapping_inc(I64_MAX), U64_MAX})}
OptionalModels ==
    {[create_test_basic_model(2, "b", Text, GB(1), 1) EXCEPT
            !.description = d, !.license = d, !.checksum = d,
            !.is_official = TRUE, !.rating = Some("5.0")] :
        d \in Descriptions}
JsonModels ==
    {[create_test_basic_model(1, "a", Code, U64_MAX, 0) EXCEPT
            !.tags = k[1], !.languages = k[2], !.config = k[3]] :
        k \in (TagLists \X {<<>>} \X {EmptyMap})
                \cup ({<< <<"a", "\"", ",", "\\", "]", "\n", " ">> >>}
                        \X {<< <<"E", "n">>, <<"z", "h">> >>} \X Configs)}
BasicModels == TypedModels \cup SizedModels \cup OptionalModels \cup JsonModels

\* ModelsTable rows with every variant name and with other text in the
\* model_type and size_category columns.
ModelTypeTexts ==
    {BasicModelTypeNames[i] : i \in DOMAIN BasicModelTypeNames}
        \cup {"chat", "ImageGeneration", "Unknown", ""}
SizeCategoryTexts ==
    {BasicSizeCategoryNames[i] : i \in DOMAIN BasicSizeCategoryNames}
        \cup {"small", "Huge", ""}
ModelStatusTexts ==
    {BasicModelStatusNames[i] : i \in DOMAIN BasicModelStatusNames}
        \cup {"stopped", "Unknown", ""}
DbModels ==
    {[ModelsTable_new(1, "a", "Display", "1.0.0", k[1], "TestProvider", I64(0), 0)
        EXCEPT !.size_category = k[2]] :
        k \in (ModelTypeTexts \X {"Small"}) \cup ({"Chat"} \X SizeCategoryTexts)}

\* BasicInstalledModel values and InstalledModelsTable rows.
Ports ==
    {None, Some(Word(0, 0, 8080)), Some(I32_MAX), Some(wrapping_inc(I32_MAX)),
     Some(U32_MAX)}
BasicInstalledModels ==
    {[id |-> 1,
      model |-> create_test_basic_model(1, "a", Chat, Zero, 0),
      install_path |-> "/models/a",
      installed_at |-> 0,
      status |-> k.status,
      port |-> k.port,
      process_id |-> k.process_id,
      last_used |-> None,
      usage_count |-> k.usage_count,
      created_at |-> 0,
      updated_at |-> 0] :
        k \in [status : BasicModelStatus, port : {Some(Word(0, 0, 8080))},
               process_id : {None}, usage_count : {Zero}]
            \cup [status : {Running}, port : Ports,
                  process_id : {None, Some(U32_MAX)}, usage_count : {U64_MAX}]}
DbInstalledModels ==
    {[id |-> 1,
      model_id |-> 1,
      install_path |-> "/models/a",
      installed_at |-> 0,
      status |-> k[1],
      port |-> k[2],
      process_id |-> None,
      last_used |-> None,
      usage_count |-> I64(0),
      created_at |-> 0,
      updated_at |-> 0] :
        k \in (ModelStatusTexts \X {None})
                \cup ({"Running"}
                        \X {Some(as_i32(Word(0, 0, 8080))), Some(as_i32(U32_MAX))})}

Call_ModelsTable_try_from(c, basic_model, order) ==
    /\ pc[c] = "idle"
    /\ LET r == ModelsTable_try_from(basic_model, order)
       IN  Finish(c, "ModelsTable::try_from", basic_model, r.res, r.ret)
    /\ UNCHANGED <<models, installed, writes>>

Call_BasicModel_try_from(c, db_model) ==
    /\ pc[c] = "idle"
    /\ LET r == BasicModel_try_from(db_model)
       IN  Finish(c, "BasicModel::try_from", db_model, r.res, r.ret)
    /\ UNCHANGED <<models, installed, writes>>

Call_InstalledModelsTable_try_from(c, basic_installed) ==
    /\ pc[c] = "idle"
    /\ LET r == InstalledModelsTable_try_from(basic_installed)
       IN  Finish(c, "InstalledModelsTable::try_from", basic_installed, r.res, r.ret)
    /\ UNCHANGED <<models, installed, writes>>

Call_db_to_basic_installed_model(c, db_model, db_installed) ==
    /\ pc[c] = "idle"
    /\ LET r == db_to_basic_installed_model(db_model, db_installed)
       IN  Finish(c, "db_to_basic_installed_model", <<db_model, db_installed>>,
                  r.res, r.ret)
    /\ UNCHANGED <<models, installed, writes>>

\* The rows a caller converts back: those of DbModels and the rows the
\* conversion of a BasicModel has produced.
ProducedRows ==
    {ret[c] : c \in {d \in Callers : op[d] = "ModelsTable::try_from"}}

\* The conversions are pure: one caller converts domain values to rows and
\* the other converts rows to domain values.
ConvNext ==
    \/ \E c \in RepoCallers, basic_model \in BasicModels :
            \E order \in IterationOrders(basic_model.config) :
                Call_ModelsTable_try_from(c, basic_model, order)
    \/ \E c \in RepoCallers, basic_installed \in BasicInstalledModels :
            Call_InstalledModelsTable_try_from(c, basic_installed)
    \/ \E c \in ServiceCallers, db_model \in DbModels \cup ProducedRows :
            Call_BasicModel_try_from(c, db_model)
    \/ \E c \in ServiceCallers, db_installed \in DbInstalledModels :
            \E db_model \in {r \in DbModels : r.size_category = "Small"
                                               /\ r.model_type \in {"Chat", "chat"}} :
                Call_db_to_basic_installed_model(c, db_model, db_installed)

ConvSpec == Init /\ [][ConvNext]_vars

\* ----------------------------------------------------------- the search
\* The three models of test_search_models, each with its own id, created
\* at the time of the call.
SearchModels ==
    {[id |-> 1, name |-> <<"l", "l", "a", "m", "a", "-", "c", "h", "a", "t">>,
      display_name |-> <<"L", "l", "a", "m", "a", " ", "C", "h", "a", "t", " ", "M", "o", "d", "e", "l">>],
     [id |-> 2, name |-> <<"c", "o", "d", "e", "l", "l", "a", "m", "a", "-", "c", "o", "d", "e">>,
      display_name |-> <<"C", "o", "d", "e", "L", "l", "a", "m", "a">>],
     [id |-> 3, name |-> <<"m", "i", "s", "t", "r", "a", "l", "-", "i", "n", "s", "t", "r", "u", "c", "t">>,
      display_name |-> <<"M", "i", "s", "t", "r", "a", "l", " ", "I", "n", "s", "t", "r", "u", "c", "t">>]}
SearchRows ==
    {ModelsTable_new(m.id, m.name, m.display_name, "1.0.0", "Chat", "Meta",
                     I64(0), now) : m \in SearchModels}
Queries ==
    {<<"l", "l", "a", "m", "a">>, <<"M", "i", "s", "t", "r", "a", "l">>, <<"L", "L", "A", "M", "A">>,
     <<"n", "o", "n", "e", "x", "i", "s", "t", "e", "n", "t">>, <<>>, <<"_">>, <<"l", "%", "a">>}
Limits == {None, Some(0), Some(1), Some(2), Some(10)}

ModelsRepository_search_models(c, query, limit) ==
    /\ pc[c] = "idle"
    /\ \E rows \in search_models(models, query, limit) :
            Finish(c, "search_models", <<query, limit>>, "Ok", rows)
    /\ UNCHANGED <<models, installed, writes>>

\* ------------------------------------------------------------ the clock
\* Time passes between calls.
Tick ==
    /\ now < MaxTime
    /\ now' = now + 1
    /\ UNCHANGED <<models, installed, pc, op, arg, res, ret, writes, history, executed>>

\* ModelsTable structs that differ in name and updated_at.
TimedRows ==
    {With(k, "Small", I64(0), I64(0), t) :
        k \in [id : ModelIds, name : Names, description : {Some("d")}],
        t \in 0..MaxTime}

\* The repository create_model / update_model of one caller and the service
\* update_model of the other while time passes.
TimeNext ==
    \/ Tick
    \/ \E c \in RepoCallers, row \in TimedRows : ModelsRepository_create_model(c, row)
    \/ \E c \in RepoCallers, row \in TimedRows : ModelsRepository_update_model(c, row)
    \/ \E c \in ServiceCallers, row \in TimedRows : ModelsService_update_model(c, row)
    \/ \E c \in ServiceCallers : ModelsService_update_model_update(c)

TimeSpec == Init /\ [][TimeNext]_vars

\* Models are created and searched while time passes.
SearchNext ==
    \/ Tick
    \/ \E c \in RepoCallers, model \in SearchRows : ModelsRepository_create_model(c, model)
    \/ \E c \in RepoCallers, query \in Queries, limit \in Limits :
            ModelsRepository_search_models(c, query, limit)

SearchSpec == Init /\ [][SearchNext]_vars

TypeOK ==
    /\ \A r \in models :
        /\ r.id \in ModelIds /\ r.name \in Names /\ r.description \in {"", "d"}
        /\ r.updated_at \in 0..MaxTime
    /\ \A r \in installed : r.model_id \in ModelIds /\ r.usage_count \in 0..MaxUsage

\* ------------------------------------------------------- the statistics
\* a + b (mod 2^64).
word_add_no_carry(a, b) ==
    Word((a[1] + b[1]) % (2 * Limb), (a[2] + b[2]) % Limb, (a[3] + b[3]) % Limb)
word_add(a, b) ==
    LET l == a[3] + b[3]
        m == a[2] + b[2] + (l \div Limb)
        h == a[1] + b[1] + (m \div Limb)
    IN  Word(h % (2 * Limb), m % Limb, l % Limb)

\* ModelsService::get_statistics: one scan of the Model rows that counts
\* them, counts the official ones, adds up the file sizes and counts the
\* rows of each model type, and the number of installation records.
RECURSIVE scan_models(_, _)
scan_models(rows, stats) ==
    IF rows = {} THEN stats
    ELSE LET r == CHOOSE r \in rows : TRUE
             m == row_to_models_table(r)
             by_type == stats.models_by_type
         IN  scan_models(rows \ {r},
                [stats EXCEPT
                    !.total_models = @ + 1,
                    !.official_count = IF m.is_official THEN @ + 1 ELSE @,
                    !.total_size_bytes = word_add(@, as_u64(m.file_size)),
                    !.models_by_type =
                        IF m.model_type \in DOMAIN by_type
                        THEN [by_type EXCEPT ![m.model_type] = @ + 1]
                        ELSE (m.model_type :> 1) @@ by_type])
get_statistics(mtbl, itbl) ==
    scan_models(mtbl,
        [total_models |-> 0, installed_count |-> Cardinality(itbl),
         official_count |-> 0, total_size_bytes |-> Zero,
         models_by_type |-> [t \in {} |-> 0]])

ModelsService_get_statistics(c) ==
    /\ pc[c] = "idle"
    /\ Finish(c, "get_statistics", "none", "Ok", get_statistics(models, installed))
    /\ UNCHANGED <<models, installed, writes>>

\* The four models of test_statistics_calculation, of 1, 2, 3 and 4 GB,
\* each with its own id.
StatModels ==
    {[id |-> 1, name |-> "chat1", model_type |-> Chat, is_official |-> FALSE],
     [id |-> 2, name |-> "chat2", model_type |-> Chat, is_official |-> TRUE],
     [id |-> 3, name |-> "code1", model_type |-> Code, is_official |-> TRUE],
     [id |-> 4, name |-> "text1", model_type |-> Text, is_official |-> FALSE]}
StatRows ==
    {ModelsTable_try_from(
        [create_test_basic_model(m.id, m.name, m.model_type, GB(m.id), now)
            EXCEPT !.is_official = m.is_official], <<>>).ret : m \in StatModels}

StatsNext ==
    \/ \E c \in RepoCallers, model \in StatRows : ModelsRepository_create_model(c, model)
    \/ \E c \in RepoCallers, m \in StatModels : ModelsRepository_install_model(c, m.id)
    \/ \E c \in RepoCallers : ModelsService_get_statistics(c)

StatsSpec == Init /\ [][StatsNext]_vars

\* -------------------------------------------------- the installed join
\* db_model_to_service and db_installed_model_to_service: the service
\* values of a Model row and of its installation record.
db_model_to_service(db_model) == service_model_to_db(db_model)
db_installed_model_to_service(db_model, db_installed) ==
    [model_id |-> db_model.id, status |-> db_installed.status,
     usage_count |-> db_installed.usage_count]

\* The rows of models joined with installed_models ON models.id =
\* installed_models.model_id.
inner_join(mtbl, itbl) ==
    {<<row_to_models_table(p[1]), Some(p[2])>> :
        p \in {q \in mtbl \X itbl : q[2].model_id = q[1].id}}

\* Variant of the join that keeps only the installed models.
get_models_with_install_info_inner_join(mtbl, itbl) == inner_join(mtbl, itbl)
\* ModelsRepository::get_models_with_install_info: models LEFT JOIN
\* installed_models, one pair for every match and one pair with None for
\* a model without a match.
get_models_with_install_info(mtbl, itbl) ==
    inner_join(mtbl, itbl)
        \cup {<<row_to_models_table(m), None>> :
                m \in {r \in mtbl : rows_by_model_id(itbl, r.id) = {}}}

\* ModelsService::get_models_with_install_info: every pair of the join,
\* converted, in the order the statement returned them.
ModelsService_get_models_with_install_info(c) ==
    /\ pc[c] = "idle"
    /\ LET pairs == get_models_with_install_info(models, installed)
           n == Cardinality(pairs)
       IN  \E order \in {o \in [1..n -> pairs] : \A i, j \in 1..n : o[i] = o[j] => i = j} :
               Finish(c, "get_models_with_install_info", "none", "Ok",
                      [k \in 1..n |->
                        <<db_model_to_service(order[k][1]),
                          IF is_some(order[k][2])
                          THEN Some(db_installed_model_to_service(order[k][1],
                                                                  unwrap(order[k][2])))
                          ELSE None>>])
    /\ UNCHANGED <<models, installed, writes>>

JoinNext ==
    \/ \E c \in RepoCallers, model \in ModelsTable : ModelsRepository_create_model(c, model)
    \/ \E c \in RepoCallers, id \in ModelIds : ModelsRepository_install_model(c, id)
    \/ \E c \in RepoCallers, id \in ModelIds : ModelsRepository_delete_model(c, id)
    \/ \E c \in RepoCallers : ModelsService_get_models_with_install_info(c)

JoinSpec == Init /\ [][JoinNext]_vars

\* ------------------------------------------------------- the migrations
\* run_migrations of one runner: CREATE TABLE IF NOT EXISTS
\* _migration_history, the read of the current version, then for every
\* script of a higher version the script and the INSERT of its version, as
\* separate statements.  arg holds the locals of the run: whether every
\* version was recorded when it started, the outcome of the read,
\* current_version and the version of the loop.  Every statement can fail,
\* and a run can be abandoned at every await.
Run(c, label, a, r) ==
    /\ pc' = [pc EXCEPT ![c] = label]
    /\ op' = [op EXCEPT ![c] = "run_migrations"]
    /\ arg' = [arg EXCEPT ![c] = a]
    /\ res' = [res EXCEPT ![c] = r]
    /\ ret' = [ret EXCEPT ![c] = "none"]
    /\ UNCHANGED <<models, installed, writes, now>>

\* SELECT MAX(version) FROM _migration_history, 0 for an empty table.
get_migration_version(h) ==
    IF h = {} THEN 0 ELSE CHOOSE v \in h : \A w \in h : w <= v

\* The first version above current_version from `version` on, or
\* Migrations + 1 when the loop is over.
next_version(version, current_version) ==
    IF version > current_version THEN version ELSE current_version + 1

run_migrations(c, created) ==
    /\ pc[c] = "idle"
    /\ LET a == [complete |-> history = Versions, read |-> "pending",
                 current_version |-> 0, version |-> 1]
       IN  IF created THEN Run(c, "get_migration_version", a, "pending")
           ELSE Run(c, "idle", a, "Err")
    /\ UNCHANGED <<history, executed>>

\* let current_version = Self::get_migration_version(pool).await.unwrap_or(0)
run_migrations_get_migration_version(c, read) ==
    /\ pc[c] = "get_migration_version"
    /\ LET current_version == IF read = "Ok" THEN get_migration_version(history) ELSE 0
           a == [arg[c] EXCEPT !.read = read, !.current_version = current_version,
                               !.version = next_version(1, current_version)]
       IN  IF a.version > Migrations THEN Run(c, "idle", a, "Ok")
           ELSE Run(c, "execute", a, "pending")
    /\ UNCHANGED <<history, executed>>

\* sqlx::query(migration).execute(pool).await?
run_migrations_execute(c, ok) ==
    /\ pc[c] = "execute"
    /\ IF ok
       THEN /\ executed' = [executed EXCEPT ![arg[c].version] = IF @ < 2 THEN @ + 1 ELSE @]
            /\ Run(c, "insert", arg[c], "pending")
       ELSE /\ executed' = executed
            /\ Run(c, "idle", arg[c], "Err")
    /\ history' = history

\* INSERT INTO _migration_history (version, name) VALUES (?1, ?2), with
\* version UNIQUE.
run_migrations_insert(c, ok) ==
    /\ pc[c] = "insert"
    /\ IF ok /\ arg[c].version \notin history
       THEN /\ history' = history \cup {arg[c].version}
            /\ LET a == [arg[c] EXCEPT !.version = @ + 1]
               IN  IF a.version > Migrations THEN Run(c, "idle", a, "Ok")
                   ELSE Run(c, "execute", a, "pending")
       ELSE /\ history' = history
            /\ Run(c, "idle", arg[c], "Err")
    /\ executed' = executed

\* The future of run_migrations is dropped at an await.
run_migrations_abandoned(c) ==
    /\ pc[c] \in {"get_migration_version", "execute", "insert"}
    /\ Run(c, "idle", arg[c], "abandoned")
    /\ UNCHANGED <<history, executed>>

\* ModelDatabase::init_tables: CREATE TABLE IF NOT EXISTS models, the two
\* ADD COLUMN statements whose result is dropped with `let _ =`, and the
\* CREATE INDEX statements; arg holds the outcome of every statement.
StatementOutcomes == {"Ok", "duplicate column name", "disk I/O error"}
init_tables(outcomes) ==
    IF outcomes.create_table # "Ok" THEN "Err"
    ELSE IF outcomes.indexes # "Ok" THEN "Err"
    ELSE "Ok"
ModelDatabase_init_tables(c, outcomes) ==
    /\ pc[c] = "idle"
    /\ Finish(c, "init_tables", outcomes, init_tables(outcomes), "none")
    /\ UNCHANGED <<models, installed, writes>>

MigrationNext ==
    \/ \E c \in Callers, created \in BOOLEAN : run_migrations(c, created)
    \/ \E c \in Callers, read \in {"Ok", "Err"} : run_migrations_get_migration_version(c, read)
    \/ \E c \in Callers, ok \in BOOLEAN : run_migrations_execute(c, ok)
    \/ \E c \in Callers, ok \in BOOLEAN : run_migrations_insert(c, ok)
    \/ \E c \in Callers : run_migrations_abandoned(c)
    \/ \E c \in RepoCallers,
          outcomes \in [create_table : {"Ok", "disk I/O error"},
                        add_filename : StatementOutcomes,
                        add_size : StatementOutcomes,
                        indexes : {"Ok", "disk I/O error"}] :
            ModelDatabase_init_tables(c, outcomes)

MigrationSpec == Init /\ [][MigrationNext]_vars

\* ------------------------------------------------------- ModelDatabase
\* The table models of ModelDatabase (lib.rs), keyed by model_id.  A row is
\* abstracted to model_id, private, pipeline_tag, downloads, created_at and
\* updated_at.  add_model binds every parameter as text; the INTEGER
\* columns store the number the text denotes.
i64_to_string(n) ==
    IF n < 0 THEN <<"-">> \o format_number(0 - n) ELSE format_number(n)

RECURSIVE digits_value(_, _)
digits_value(t, acc) ==
    IF Len(t) = 0 THEN acc
    ELSE digits_value(Tail(t), acc * 10 + DigitValue(Head(t)))

\* The INTEGER affinity of a column applied to a bound text.
integer_affinity(t) ==
    IF Head(t) = "-" THEN 0 - digits_value(Tail(t), 0) ELSE digits_value(t, 0)

add_model_params(model) ==
    [model_id |-> model.model_id,
     private |-> IF model.private THEN <<"1">> ELSE <<"0">>,
     pipeline_tag |-> unwrap_or_default(model.pipeline_tag),
     downloads |-> i64_to_string(model.downloads)]

\* INSERT OR REPLACE INTO models (...) VALUES (..., CURRENT_TIMESTAMP,
\* CURRENT_TIMESTAMP): the row is replaced whole, created_at included.
add_model_replace(tbl, model, t) ==
    LET params == add_model_params(model)
    IN  {r \in tbl : r.model_id # params.model_id} \cup
        {[model_id |-> params.model_id,
          private |-> integer_affinity(params.private),
          pipeline_tag |-> params.pipeline_tag,
          downloads |-> integer_affinity(params.downloads),
          created_at |-> t,
          updated_at |-> t]}

\* INSERT OR REPLACE INTO models (...) VALUES (...,
\*   COALESCE((SELECT created_at FROM models WHERE model_id = ?1),
\*            CURRENT_TIMESTAMP), CURRENT_TIMESTAMP)
add_model(tbl, model, t) ==
    LET params == add_model_params(model)
        old == {r \in tbl : r.model_id = params.model_id}
    IN  (tbl \ old) \cup
        {[model_id |-> params.model_id,
          private |-> integer_affinity(params.private),
          pipeline_tag |-> params.pipeline_tag,
          downloads |-> integer_affinity(params.downloads),
          created_at |-> IF old = {} THEN t ELSE (CHOOSE r \in old : TRUE).created_at,
          updated_at |-> t]}

\* DELETE FROM models WHERE model_id = ?1
delete(tbl, model_id) == {r \in tbl : r.model_id # model_id}

ModelDatabase_add_model(c, model) ==
    /\ pc[c] = "idle"
    /\ models' = add_model(models, model, now)
    /\ Finish(c, "add_model", model, "Ok", "none")
    /\ UNCHANGED <<installed, writes>>

ModelDatabase_delete(c, model_id) ==
    /\ pc[c] = "idle"
    /\ models' = delete(models, model_id)
    /\ Finish(c, "delete", model_id, "Ok", "none")
    /\ UNCHANGED <<installed, writes>>

\* The ModelInfo values given to add_model; the timestamps they carry are
\* not times of the clock.
ModelInfoIds == {"org/a", "org/b"}
ModelInfos ==
    [model_id : ModelInfoIds, private : BOOLEAN, pipeline_tag : {None},
     downloads : {0}, created_at : {7}, updated_at : {8}]
    \cup [model_id : ModelInfoIds, private : {FALSE},
          pipeline_tag : {None, Some("text-generation")},
          downloads : {0, 12, 0 - 3}, created_at : {7}, updated_at : {8}]

UpsertNext ==
    \/ \E c \in RepoCallers, model \in ModelInfos : ModelDatabase_add_model(c, model)
    \/ \E c \in RepoCallers, model_id \in ModelInfoIds : ModelDatabase_delete(c, model_id)
    \/ Tick

UpsertSpec == Init /\ [][UpsertNext]_vars

\* ------------------------------------------------- concurrent creation
\* Variant of get_all_models that returns the first row only.
get_all_models_first_row(mtbl) ==
    IF mtbl = {} THEN {<<>>}
    ELSE {<<row_to_models_table(r)>> :
            r \in {q \in mtbl : \A s \in mtbl : q.created_at >= s.created_at}}
\* SELECT * FROM models ORDER BY created_at DESC, every row converted: the
\* possible results, one for every order of the rows with equal created_at.
get_all_models(mtbl) ==
    LET n == Cardinality(mtbl)
    IN  {[i \in 1..n |-> row_to_models_table(o[i])] :
            o \in {q \in [1..n -> mtbl] :
                    /\ \A i, j \in 1..n : q[i] = q[j] => i = j
                    /\ \A i, j \in 1..n : i < j => q[i].created_at >= q[j].created_at}}

ModelsRepository_get_all_models(c) ==
    /\ pc[c] = "idle"
    /\ \E rows \in get_all_models(models) :
            Finish(c, "get_all_models", "none", "Ok", rows)
    /\ UNCHANGED <<models, installed, writes>>

\* The rows of concurrent calls have pairwise distinct ids and names: the
\* row of a new call shares neither with a stored row nor with the row of
\* a call under way.
distinct_from_calls(model) ==
    /\ rows_by_id(models, model.id) = {}
    /\ rows_by_name(models, model.name) = {}
    /\ \A d \in Callers :
        pc[d] = "create_model_insert" =>
            arg[d].id # model.id /\ arg[d].name # model.name

ConcurrentNext ==
    \/ \E c \in Callers, model \in Model :
        distinct_from_calls(model) /\ ModelsService_create_model(c, model)
    \/ \E c \in Callers : ModelsService_create_model_insert(c)
    \/ \E c \in RepoCallers, model \in ModelsTable :
        distinct_from_calls(model) /\ ModelsRepository_create_model(c, model)
    \/ \E c \in Callers : ModelsRepository_get_all_models(c)
    \/ Tick

ConcurrentSpec == Init /\ [][ConcurrentNext]_vars

\* ------------------------------------------------------ the status column
\* ModelsRepository::update_model_status(model_id, status: String):
\* UPDATE installed_models SET status = $2, updated_at = $3
\* WHERE model_id = $1.
update_model_status(itbl, model_id, status) ==
    [res |-> "Ok", ret |-> "unit",
     installed |-> {IF r.model_id = model_id THEN [r EXCEPT !.status = status] ELSE r :
                        r \in itbl}]

ModelsRepository_update_model_status(c, model_id, status) ==
    /\ pc[c] = "idle"
    /\ LET r == update_model_status(installed, model_id, status)
       IN  /\ installed' = r.installed
           /\ Finish(c, "update_model_status", <<model_id, status>>, r.res, r.ret)
    /\ UNCHANGED <<models, writes>>

\* InstalledModelsTable::update_status(&mut self, status: String).
update_status(self, status) == [self EXCEPT !.status = status]

\* update_status on the stored record of a model, written back with
\* update_installed_model.
InstalledModelsTable_update_status(c, model_id, status) ==
    /\ pc[c] = "idle"
    /\ LET found == get_installed_model_by_model_id(installed, model_id)
       IN  IF is_none(found)
           THEN /\ installed' = installed
                /\ Finish(c, "update_status", <<model_id, status>>, "Ok", None)
           ELSE LET r == update_installed_model(installed, update_status(unwrap(found), status))
                IN  /\ installed' = r.installed
                    /\ Finish(c, "update_status", <<model_id, status>>, r.res, found)
    /\ UNCHANGED <<models, writes>>

\* The texts a caller passes as status: the names of the variants, the
\* names the service adds, and others.
StatusTexts ==
    {BasicModelStatusNames[i] : i \in DOMAIN BasicModelStatusNames}
        \cup {"Downloading", "Installing", "running", ""}

StatusNext ==
    \/ \E c \in RepoCallers, model \in Model : ModelsRepository_create_model(c, model)
    \/ \E c \in RepoCallers, id \in ModelIds : ModelsRepository_install_model(c, id)
    \/ \E c \in RepoCallers, id \in ModelIds : ModelsRepository_delete_model(c, id)
    \/ \E c \in RepoCallers, id \in ModelIds, status \in StatusTexts :
        ModelsRepository_update_model_status(c, id, status)
    \/ \E c \in RepoCallers, id \in ModelIds, status \in StatusTexts :
        InstalledModelsTable_update_status(c, id, status)

StatusSpec == Init /\ [][StatusNext]_vars

\* ------------------------------------------------- PostgresOperations
\* impl ModelRepository<sqlx::Postgres> for PostgresOperations: what every
\* method returns.  No method reads or writes a table.
PostgresOperations_get_all_models == <<>>
PostgresOperations_get_model_by_id(id) == None
PostgresOperations_get_model_by_name(name) == None
PostgresOperations_create_model(model) == "Ok"
PostgresOperations_delete_model(id) == "Ok"

\* A caller makes the same calls on PostgresOperations and on the
\* SQLite-backed repository: models is the table of the latter, res and ret
\* are what PostgresOperations returned.
Both_create_model(c, model) ==
    /\ pc[c] = "idle"
    /\ models' = create_model(models, service_model_to_db(model)).models
    /\ Finish(c, "create_model", model, PostgresOperations_create_model(model), "unit")
    /\ UNCHANGED <<installed, writes>>

Both_get_model_by_id(c, id) ==
    /\ pc[c] = "idle"
    /\ Finish(c, "get_model_by_id", id, "Ok", PostgresOperations_get_model_by_id(id))
    /\ UNCHANGED <<models, installed, writes>>

Both_get_model_by_name(c, name) ==
    /\ pc[c] = "idle"
    /\ Finish(c, "get_model_by_name", name, "Ok", PostgresOperations_get_model_by_name(name))
    /\ UNCHANGED <<models, installed, writes>>

Both_get_all_models(c) ==
    /\ pc[c] = "idle"
    /\ Finish(c, "get_all_models", "none", "Ok", PostgresOperations_get_all_models)
    /\ UNCHANGED <<models, installed, writes>>

Both_delete_model(c, id) ==
    /\ pc[c] = "idle"
    /\ LET r == delete_model(models, installed, id)
       IN  /\ models' = r.models
           /\ installed' = r.installed
    /\ Finish(c, "delete_model", id, PostgresOperations_delete_model(id), "unit")
    /\ UNCHANGED writes

PostgresNext ==
    \/ \E c \in RepoCallers, model \in ModelsTable : Both_create_model(c, model)
    \/ \E c \in RepoCallers, id \in ModelIds : Both_get_model_by_id(c, id)
    \/ \E c \in RepoCallers, name \in Names : Both_get_model_by_name(c, name)
    \/ \E c \in RepoCallers : Both_get_all_models(c)
    \/ \E c \in RepoCallers, id \in ModelIds : Both_delete_model(c, id)

PostgresSpec == Init /\ [][PostgresNext]_vars

\* ================================================================ claims
\* Plain readings of the tables, used to state the properties.
StoredName(name) == \E r \in models : r.name = name
StoredId(id) == \E r \in models : r.id = id
InstalledFor(id) == \E r \in installed : r.model_id = id
TablesUnchanged == models' = models /\ installed' = installed
\* Caller c starts operation o in this step (a filter on c's own fields that
\* every first step of o by c satisfies, unless the step changes nothing).
Calls(c, o) ==
    /\ pc[c] = "idle"
    /\ op'[c] = o
    /\ (pc'[c] # "idle" \/ op[c] # o \/ res'[c] # res[c] \/ writes'[c] # writes[c])
\* The step inserts exactly one models row, carrying the id and name of m.
InsertsModel(m) ==
    /\ models \subseteq models'
    /\ Cardinality(models') = Cardinality(models) + 1
    /\ \E r \in models' \ models : r.id = m.id /\ r.name = m.name
    /\ installed' = installed

\* C1: in every reachable state of the service under concurrent callers no
\* two stored models rows have the same name.
C1_NameUnique ==
    \A r1 \in models : \A r2 \in models : r1.name = r2.name => r1 = r2

\* C1 witness: two rows are stored, created and updated through the service.
C1_Witness ==
    /\ Cardinality(models) = 2
    /\ \E c \in Callers, d \in Callers :
        /\ op[c] = "create_model" /\ res[c] = "Ok"
        /\ op[d] = "update_model" /\ res[d] = "Ok"

\* C2 as stated: create_model fails with ModelAlreadyExists, changing
\* nothing, when the name is stored at its check; and when no stored row has
\* the name it goes on to the INSERT, which inserts m and returns Ok.
C2_Original ==
    [][\A c \in Callers :
        /\ Calls(c, "create_model") =>
            \A m \in Model : ModelsService_create_model(c, m) =>
              IF StoredName(m.name)
              THEN res'[c] = "ModelAlreadyExists" /\ pc'[c] = "idle" /\ TablesUnchanged
              ELSE pc'[c] = "create_model_insert" /\ TablesUnchanged
        /\ (pc[c] = "create_model_insert" /\ pc'[c] = "idle"
            /\ ~StoredName(arg[c].name)) =>
              res'[c] = "Ok" /\ InsertsModel(arg[c])
      ]_vars

\* C2 amended: as C2, but the INSERT inserts m and returns Ok when no stored
\* row has the name or the id of m; when a stored row has the id of m (under
\* another name) it fails with DatabaseError and changes nothing.
C2_CreateModel ==
    [][\A c \in Callers :
        /\ Calls(c, "create_model") =>
            \A m \in Model : ModelsService_create_model(c, m) =>
              IF StoredName(m.name)
              THEN res'[c] = "ModelAlreadyExists" /\ pc'[c] = "idle" /\ TablesUnchanged
              ELSE pc'[c] = "create_model_insert" /\ TablesUnchanged
        /\ (pc[c] = "create_model_insert" /\ pc'[c] = "idle"
            /\ ~StoredName(arg[c].name)) =>
              IF StoredId(arg[c].id)
              THEN res'[c] = "DatabaseError" /\ TablesUnchanged
              ELSE res'[c] = "Ok" /\ InsertsModel(arg[c])
      ]_vars

\* C2 witness: one create_model returned Ok and another ModelAlreadyExists.
C2_Witness ==
    \E c \in Callers, d \in Callers :
        /\ op[c] = "create_model" /\ res[c] = "Ok" /\ writes[c] = 1
        /\ op[d] = "create_model" /\ res[d] = "ModelAlreadyExists" /\ writes[d] = 0
        /\ models # {}

\* Two create_model calls for one name have both passed the existence check.
CreateRace(c, d) ==
    /\ c # d
    /\ pc[c] = "create_model_insert"
    /\ pc[d] = "create_model_insert"
    /\ arg[c].name = arg[d].name

\* C3 as stated: of two racing create_model calls for one name exactly one
\* INSERT succeeds (so the first to insert succeeds), the INSERT that finds
\* the name stored fails with DatabaseError and stores nothing.
C3_Original ==
    [][\A c \in Callers :
        /\ \A d \in Callers : (CreateRace(c, d) /\ pc'[c] = "idle") =>
              res'[c] = "Ok" /\ InsertsModel(arg[c])
        /\ (pc[c] = "create_model_insert" /\ pc'[c] = "idle" /\ StoredName(arg[c].name)) =>
              res'[c] = "DatabaseError" /\ TablesUnchanged
      ]_vars

\* C3 amended: of two racing create_model calls for one name the first to
\* insert succeeds unless a stored row already has its id (then it fails
\* with DatabaseError too); the INSERT that finds the name stored fails with
\* DatabaseError, never ModelAlreadyExists, and stores nothing; so at most
\* one of the two succeeds and no duplicate name is stored.
C3_CreateRace ==
    [][\A c \in Callers :
        /\ \A d \in Callers : (CreateRace(c, d) /\ pc'[c] = "idle") =>
              IF StoredId(arg[c].id)
              THEN res'[c] = "DatabaseError" /\ TablesUnchanged
              ELSE res'[c] = "Ok" /\ InsertsModel(arg[c])
        /\ (pc[c] = "create_model_insert" /\ pc'[c] = "idle" /\ StoredName(arg[c].name)) =>
              res'[c] = "DatabaseError" /\ TablesUnchanged
        /\ \A r1 \in models' : \A r2 \in models' : r1.name = r2.name => r1 = r2
      ]_vars

\* C3 witness: two create_model calls raced; one returned Ok, the other
\* DatabaseError, and one row is stored.
C3_Witness ==
    \E c \in Callers, d \in Callers :
        /\ op[c] = "create_model" /\ res[c] = "Ok"
        /\ op[d] = "create_model" /\ res[d] = "DatabaseError"
        /\ Cardinality(models) = 1

\* C4: install_model returns ModelNotFound when no models row has the id,
\* ModelAlreadyInstalled when a record for the id exists at its check, and
\* otherwise inserts exactly one record and returns Ok; the failing paths
\* write nothing.
C4_InstallModel ==
    [][\A c \in Callers :
        /\ Calls(c, "install_model") =>
            \A i \in InstalledModel : ModelsService_install_model(c, i) =>
              IF ~StoredId(i.model_id)
              THEN /\ res'[c] = "ModelNotFound" /\ pc'[c] = "idle"
                   /\ writes'[c] = 0 /\ TablesUnchanged
              ELSE pc'[c] = "install_model_check_installed" /\ TablesUnchanged
        /\ (pc[c] = "install_model_check_installed" /\ pc'[c] # pc[c]) =>
              IF InstalledFor(arg[c].model_id)
              THEN /\ res'[c] = "ModelAlreadyInstalled" /\ pc'[c] = "idle"
                   /\ writes'[c] = 0 /\ TablesUnchanged
              ELSE pc'[c] = "install_model_insert" /\ TablesUnchanged
        /\ (pc[c] = "install_model_insert" /\ pc'[c] = "idle"
            /\ StoredId(arg[c].model_id) /\ ~InstalledFor(arg[c].model_id)) =>
              /\ res'[c] = "Ok" /\ writes'[c] = 1
              /\ models' = models
              /\ installed \subseteq installed'
              /\ Cardinality(installed') = Cardinality(installed) + 1
              /\ \E r \in installed' \ installed : r.model_id = arg[c].model_id
      ]_vars

\* C4 witness: one install_model returned Ok, a later one for an installed
\* model returned ModelAlreadyInstalled, and one record is stored.
C4_Witness ==
    \E c \in Callers, d \in Callers :
        /\ op[c] = "install_model" /\ res[c] = "Ok" /\ writes[c] = 1
        /\ op[d] = "install_model" /\ res[d] = "ModelAlreadyInstalled" /\ writes[d] = 0
        /\ Cardinality(installed) = 1

\* C5: in every reachable state of the service under concurrent callers
\* there is at most one installed_models row for each model_id.
C5_OneInstallPerModel ==
    \A m \in ModelIds : Cardinality({r \in installed : r.model_id = m}) <= 1

\* C5 witness: two install_model calls for one model raced; the unique index
\* rejected the second INSERT and one record is stored.
C5_Witness ==
    \E c \in Callers, d \in Callers :
        /\ op[c] = "install_model" /\ res[c] = "Ok"
        /\ op[d] = "install_model" /\ res[d] = "DatabaseError"
        /\ Cardinality(models) = 1
        /\ Cardinality(installed) = 1

\* C6: delete_model returns ModelHasInstalledInstances and removes nothing
\* when a record for the id exists; uninstall_model's DELETE returns Ok and
\* leaves no record for the id; with no record and the model stored
\* delete_model goes through to its DELETE, which returns Ok and leaves no
\* models row with the id.
C6_DeleteModel ==
    [][\A c \in Callers :
        /\ Calls(c, "delete_model") =>
            \A id \in ModelIds : ModelsService_delete_model(c, id) =>
              IF InstalledFor(id)
              THEN /\ res'[c] = "ModelHasInstalledInstances" /\ pc'[c] = "idle"
                   /\ writes'[c] = 0 /\ TablesUnchanged
              ELSE pc'[c] = "delete_model_check_model" /\ TablesUnchanged
        /\ (pc[c] = "delete_model_check_model" /\ pc'[c] # pc[c] /\ StoredId(arg[c])) =>
              pc'[c] = "delete_model_delete" /\ TablesUnchanged
        /\ (pc[c] = "delete_model_delete" /\ pc'[c] = "idle") =>
              /\ res'[c] = "Ok"
              /\ models' = {r \in models : r.id # arg[c]}
        /\ (pc[c] = "uninstall_model_delete" /\ pc'[c] = "idle") =>
              /\ res'[c] = "Ok"
              /\ installed' = {r \in installed : r.model_id # arg[c]}
              /\ models' = models
      ]_vars

\* C6 witness: a delete_model was refused with ModelHasInstalledInstances
\* while the record existed, and after an uninstall_model returned Ok no
\* record is left.
C6_Witness ==
    \E c \in Callers, d \in Callers :
        /\ op[c] = "uninstall_model" /\ res[c] = "Ok"
        /\ op[d] = "delete_model" /\ res[d] = "ModelHasInstalledInstances"
        /\ installed = {}
        /\ models # {}

\* C7: the DELETE of a delete_model that returns Ok never executes while an
\* installation record for the model exists, so it removes no record.
C7_DeleteNeverCascades ==
    [][\A c \in Callers :
        (pc[c] = "delete_model_delete" /\ pc'[c] = "idle" /\ res'[c] = "Ok") =>
            /\ ~InstalledFor(arg[c])
            /\ installed' = installed
      ]_vars

\* C8: uninstall_model, update_installed_model and update_model_usage
\* return ModelNotInstalled without a write when no record for the model
\* exists at their check, and otherwise go on to exactly one write.
C8_NotInstalled ==
    [][\A c \in Callers :
        /\ Calls(c, "uninstall_model") =>
            \A id \in ModelIds : ModelsService_uninstall_model(c, id) =>
              IF ~InstalledFor(id)
              THEN /\ res'[c] = "ModelNotInstalled" /\ pc'[c] = "idle"
                   /\ writes'[c] = 0 /\ TablesUnchanged
              ELSE pc'[c] = "uninstall_model_delete" /\ writes'[c] = 0 /\ TablesUnchanged
        /\ Calls(c, "update_installed_model") =>
            \A i \in InstalledModel : ModelsService_update_installed_model(c, i) =>
              IF ~InstalledFor(i.model_id)
              THEN /\ res'[c] = "ModelNotInstalled" /\ pc'[c] = "idle"
                   /\ writes'[c] = 0 /\ TablesUnchanged
              ELSE pc'[c] = "update_installed_model_update" /\ writes'[c] = 0 /\ TablesUnchanged
        /\ Calls(c, "update_model_usage") =>
            \A id \in ModelIds : ModelsService_update_model_usage(c, id) =>
              IF ~InstalledFor(id)
              THEN /\ res'[c] = "ModelNotInstalled" /\ pc'[c] = "idle"
                   /\ writes'[c] = 0 /\ TablesUnchanged
              ELSE pc'[c] = "update_model_usage_update" /\ writes'[c] = 0 /\ TablesUnchanged
        /\ (pc[c] \in {"uninstall_model_delete", "update_installed_model_update",
                       "update_model_usage_update"} /\ pc'[c] # pc[c]) =>
              /\ pc'[c] = "idle"
              /\ writes'[c] = 1
              /\ models' = models
      ]_vars

\* C8 witness: an update_model_usage wrote once and raised the count, and an
\* uninstall_model found no record and wrote nothing.
C8_Witness ==
    \E c \in Callers, d \in Callers :
        /\ op[c] = "update_model_usage" /\ res[c] = "Ok" /\ writes[c] = 1
        /\ op[d] = "uninstall_model" /\ res[d] = "ModelNotInstalled" /\ writes[d] = 0
        /\ \E r \in installed : r.usage_count > 0

\* Caller c makes the repository call o in this step.
RepoCalls(c, o) == pc[c] = "idle" /\ op'[c] = o /\ pc'[c] = "idle"
\* The (id, name) pairs of the stored models rows.
IdNames(tbl) == {<<r.id, r.name>> : r \in tbl}

\* C9 as stated: ModelsRepository.create_model(row) fails and leaves the
\* table unchanged when a stored row has row.name; otherwise it inserts the
\* row and returns a row equal to the supplied one.
C9_Original ==
    [][\A c \in RepoCallers : RepoCalls(c, "create_model") =>
        \A row \in ModelsTable : ModelsRepository_create_model(c, row) =>
            IF StoredName(row.name)
            THEN res'[c] = "Err" /\ TablesUnchanged
            ELSE res'[c] = "Ok" /\ ret'[c] = row /\ InsertsModel(row)
      ]_vars

\* C9 amended: ModelsRepository.create_model(row) fails and leaves the table
\* unchanged when a stored row has row.name or has row.id; otherwise it
\* inserts the row and returns a row equal to the supplied one in every
\* field.
C9_RepositoryCreate ==
    [][\A c \in RepoCallers : RepoCalls(c, "create_model") =>
        \A row \in ModelsTable : ModelsRepository_create_model(c, row) =>
            IF StoredName(row.name) \/ StoredId(row.id)
            THEN res'[c] = "Err" /\ TablesUnchanged
            ELSE res'[c] = "Ok" /\ ret'[c] = row /\ InsertsModel(row)
      ]_vars

\* C9 witness: a create_model was rejected while a row with its name and a
\* different id is stored.
C9_Witness ==
    \E c \in RepoCallers :
        /\ op[c] = "create_model" /\ res[c] = "Err"
        /\ \E r \in models : r.name = arg[c].name /\ r.id # arg[c].id

\* C10: get_model_by_id and get_model_by_name return Ok(Some(row)) exactly
\* when a row with the id (name) is stored, the row carrying the stored id
\* and name, and Ok(None) otherwise; the stored (id, name) pairs are those
\* of the created rows: create_model adds at most the pair supplied,
\* update_model changes none, delete_model removes the pairs of its id.
C10_RepositoryGet ==
    [][\A c \in RepoCallers :
        /\ RepoCalls(c, "get_model_by_id") =>
            \A id \in ModelIds : ModelsRepository_get_model_by_id(c, id) =>
                /\ res'[c] = "Ok"
                /\ IF StoredId(id)
                   THEN /\ is_some(ret'[c])
                        /\ unwrap(ret'[c]).id = id
                        /\ <<id, unwrap(ret'[c]).name>> \in IdNames(models)
                   ELSE ret'[c] = None
        /\ RepoCalls(c, "get_model_by_name") =>
            \A name \in Names : ModelsRepository_get_model_by_name(c, name) =>
                /\ res'[c] = "Ok"
                /\ IF StoredName(name)
                   THEN /\ is_some(ret'[c])
                        /\ unwrap(ret'[c]).name = name
                        /\ <<unwrap(ret'[c]).id, name>> \in IdNames(models)
                   ELSE ret'[c] = None
        /\ RepoCalls(c, "create_model") =>
            \A row \in ModelsTable : ModelsRepository_create_model(c, row) =>
                /\ IdNames(models) \subseteq IdNames(models')
                /\ IdNames(models') \subseteq IdNames(models) \cup {<<row.id, row.name>>}
        /\ RepoCalls(c, "update_model") =>
            \A row \in ModelsTable : ModelsRepository_update_model(c, row) =>
                IdNames(models') = IdNames(models)
        /\ RepoCalls(c, "delete_model") =>
            \A id \in ModelIds : ModelsRepository_delete_model(c, id) =>
                IdNames(models') = {p \in IdNames(models) : p[1] # id}
      ]_vars

\* C10 witness: after an update_model of a stored row, get_model_by_id
\* returned that row with its created name and the updated description.
C10_Witness ==
    \E c \in RepoCallers :
        /\ op[c] = "get_model_by_id"
        /\ is_some(ret[c])
        /\ unwrap(ret[c]).description = Some("d")
        /\ Cardinality(models) = 2

\* C11: ModelsRepository.delete_model(id) returns Ok(true) exactly when a
\* row with the id was stored, and that row is removed; it returns Ok(false)
\* with the tables unchanged when no such row is stored; after it returns,
\* get_model_by_id(id) is None and a second delete_model(id) returns
\* Ok(false).
C11_RepositoryDelete ==
    [][\A c \in RepoCallers : RepoCalls(c, "delete_model") =>
        \A id \in ModelIds : ModelsRepository_delete_model(c, id) =>
            /\ res'[c] = "Ok"
            /\ IF StoredId(id)
               THEN /\ ret'[c] = TRUE
                    /\ models' = {r \in models : r.id # id}
                    /\ models' # models
               ELSE ret'[c] = FALSE /\ TablesUnchanged
            /\ get_model_by_id(models', id) = None
            /\ delete_model(models', installed', id).ret = FALSE
            /\ delete_model(models', installed', id).models = models'
      ]_vars

\* C11 witness: a delete_model returned Ok(true), its row is gone and
\* another row is still stored.
C11_Witness ==
    \E c \in RepoCallers :
        /\ op[c] = "delete_model" /\ res[c] = "Ok" /\ ret[c] = TRUE
        /\ ~StoredId(arg[c])
        /\ models # {}

\* The stored row with the id, as the set of its candidates.
StoredRow(tbl, id) == {r \in tbl : r.id = id}

C13_DownloadCountMonotonic ==
    [][/\ \A old \in models : \A new \in StoredRow(models', old.id) :
            i64_le(old.download_count, new.download_count)
       /\ \A c \in Callers :
            (pc[c] = "increment_download_count_update" /\ pc'[c] = "idle"
             /\ res'[c] = "Ok") =>
                \A old \in StoredRow(models, arg[c]) :
                    \E new \in StoredRow(models', arg[c]) :
                        new.download_count = i64_inc(old.download_count)
      ]_vars

\* C15: file_size_to_category is monotonic non-decreasing in the file size
\* (Small < Medium < Large < XLarge) and maps 1_000_000_000 to Small,
\* 5_000_000_000 to Medium, 15_000_000_000 to Large and 50_000_000_000 to
\* XLarge.
C15_FileSizeToCategory ==
    /\ \A c \in Callers, d \in Callers :
        (/\ op[c] = "file_size_to_category"
         /\ op[d] = "file_size_to_category"
         /\ word_le(arg[c], arg[d])) => ret[c] <= ret[d]
    /\ \A c \in Callers : op[c] = "file_size_to_category" =>
        /\ arg[c] = GB(1) => ret[c] = Small
        /\ arg[c] = GB(5) => ret[c] = Medium
        /\ arg[c] = GB(15) => ret[c] = Large
        /\ arg[c] = GB(50) => ret[c] = XLarge

\* C15 witness: the function was applied to 5_000_000_000 and to the size
\* one byte below the 10_000_000_000 breakpoint by one caller and to the
\* breakpoint by the other, with a larger category.
C15_Witness ==
    \E c \in Callers, d \in Callers :
        /\ op[c] = "file_size_to_category"
        /\ op[d] = "file_size_to_category"
        /\ arg[c] = wrapping_dec(GB(10)) /\ ret[c] = Medium
        /\ arg[d] = GB(10) /\ ret[d] = Large

\* C16: for every non-negative file size, calculate_size_category gives the
\* name of the category that file_size_to_category gives.
C16_OneBreakpointTable ==
    \A c \in Callers, d \in Callers :
        (/\ op[c] = "calculate_size_category"
         /\ op[d] = "file_size_to_category"
         /\ ~arg[c].neg
         /\ as_u64(arg[c]) = arg[d]) =>
            ret[c] = BasicSizeCategory_to_string(ret[d])

\* C14: every stored Model row has the size_category of its file_size,
\* by the breakpoints of calculate_size_category or by those of
\* file_size_to_category.
C14_StoredSizeCategory ==
    \A r \in models :
        \/ r.size_category = calculate_size_category(r.file_size)
        \/ r.size_category =
            BasicSizeCategory_to_string(file_size_to_category(as_u64(r.file_size)))

C18_NoEnumDefault ==
    \A c \in Callers :
        /\ op[c] = "BasicModel::try_from" =>
            IF /\ \E v \in BasicModelType : BasicModelTypeNames[v] = arg[c].model_type
               /\ \E v \in BasicSizeCategory :
                        BasicSizeCategoryNames[v] = arg[c].size_category
            THEN /\ res[c] = "Ok"
                 /\ BasicModelTypeNames[ret[c].model_type] = arg[c].model_type
                 /\ BasicSizeCategoryNames[ret[c].size_category] = arg[c].size_category
            ELSE res[c] = "Err" /\ ret[c] = "none"
        /\ op[c] = "db_to_basic_installed_model" =>
            IF /\ \E v \in BasicModelType : BasicModelTypeNames[v] = arg[c][1].model_type
               /\ \E v \in BasicSizeCategory :
                        BasicSizeCategoryNames[v] = arg[c][1].size_category
               /\ \E v \in BasicModelStatus : BasicModelStatusNames[v] = arg[c][2].status
            THEN /\ res[c] = "Ok"
                 /\ BasicModelStatusNames[ret[c].status] = arg[c][2].status
                 /\ BasicModelTypeNames[ret[c].model.model_type] = arg[c][1].model_type
            ELSE res[c] = "Err" /\ ret[c] = "none"

\* C18 witness: an installed row with status "stopped" was refused next to
\* a model row that converts.
C18_Witness ==
    \E c \in Callers :
        /\ op[c] = "db_to_basic_installed_model"
        /\ arg[c][1].model_type = "Chat"
        /\ arg[c][1].size_category = "Small"
        /\ arg[c][2].status = "stopped"
        /\ res[c] = "Err"

\* C19: the conversion of a domain value to a row never stores a
\* non-negative file_size, download_count, usage_count, port or process_id
\* as a negative number.
C19_NoSilentTruncation ==
    \A c \in Callers :
        /\ op[c] = "ModelsTable::try_from" /\ res[c] = "Ok" =>
            /\ ~ret[c].file_size.neg
            /\ ~ret[c].download_count.neg
        /\ op[c] = "InstalledModelsTable::try_from" /\ res[c] = "Ok" =>
            /\ ~ret[c].usage_count.neg
            /\ is_some(ret[c].port) => ~unwrap(ret[c].port).neg
            /\ is_some(ret[c].process_id) => ~unwrap(ret[c].process_id).neg

\* Reading of "contains query as a substring", with the letter case
\* ignored.
Contains(text, query) ==
    \E k \in 0..(Len(text) - Len(query)) :
        \A i \in 1..Len(query) : like_fold(text[k + i]) = like_fold(query[i])
RowContains(r, query) ==
    \/ Contains(r.name, query)
    \/ Contains(r.display_name, query)
    \/ r.description # None /\ r.description # "" /\ Contains(r.description[1], query)

\* C20: search_models(query, limit) returns at most limit rows (50 without
\* a limit); every returned row contains query in its name, display_name
\* or description; with fewer than limit rows returned every stored row
\* that contains query is returned; the rows are in descending order of
\* created_at; and 'llama' against llama-chat, codellama-code and
\* mistral-instruct returns exactly the first two.
C20_SearchModels ==
    \A c \in RepoCallers : op[c] = "search_models" /\ res[c] = "Ok" =>
        LET query == arg[c][1]
            limit == IF is_some(arg[c][2]) THEN unwrap(arg[c][2]) ELSE 50
            rows == ret[c]
        IN  /\ Len(rows) <= limit
            /\ \A i \in 1..Len(rows) : RowContains(rows[i], query)
            /\ Len(rows) < limit =>
                    \A r \in models : RowContains(row_to_models_table(r), query) =>
                        \E i \in 1..Len(rows) : rows[i].id = r.id
            /\ \A i, j \in 1..Len(rows) :
                    i < j => rows[i].created_at >= rows[j].created_at
            /\ (/\ query = <<"l", "l", "a", "m", "a">>
                /\ limit >= 2
                /\ {r.id : r \in models} = {m.id : m \in SearchModels}) =>
                    {rows[i].name : i \in 1..Len(rows)} =
                        {<<"l", "l", "a", "m", "a", "-", "c", "h", "a", "t">>,
                         <<"c", "o", "d", "e", "l", "l", "a", "m", "a", "-", "c", "o", "d", "e">>}

\* The sum of the values of a function of numbers.
RECURSIVE SumOf(_)
SumOf(f) ==
    IF DOMAIN f = {} THEN 0
    ELSE LET k == CHOOSE k \in DOMAIN f : TRUE
         IN  f[k] + SumOf([j \in DOMAIN f \ {k} |-> f[j]])

\* C21: get_statistics reflects the stored rows: total_models is the number
\* of Model rows, official_count the number of official ones,
\* total_size_bytes the sum of the file sizes (the model of id k has k GB),
\* installed_count the number of installation records, and the per-type
\* counts sum to total_models; with the four test models stored it reports
\* 4 models, 2 official and 10_000_000_000 bytes.
C21_Statistics ==
    \A c \in RepoCallers : op[c] = "get_statistics" =>
        LET stats == ret[c]
            ids == {r.id : r \in models}
        IN  /\ stats.total_models = Cardinality(models)
            /\ stats.official_count =
                    Cardinality({m \in StatModels : m.id \in ids /\ m.is_official})
            /\ stats.total_size_bytes = GB(SumOf([k \in ids |-> k]))
            /\ stats.installed_count = Cardinality(installed)
            /\ SumOf(stats.models_by_type) = stats.total_models
            /\ ids = {m.id : m \in StatModels} =>
                    /\ stats.total_models = 4
                    /\ stats.official_count = 2
                    /\ stats.total_size_bytes = GB(10)
                    /\ stats.models_by_type = ("Chat" :> 2) @@ ("Code" :> 1) @@ ("Text" :> 1)

\* C21 witness: statistics were taken with the four models stored and one
\* of them installed.
C21_Witness ==
    \E c \in RepoCallers :
        /\ op[c] = "get_statistics"
        /\ Cardinality(models) = 4
        /\ Cardinality(installed) = 1
        /\ ret[c].total_size_bytes = GB(10)
        /\ ret[c].installed_count = 1


C23_MigrationOrder ==
    [][/\ \E k \in 0..Migrations : history' = 1..k
       /\ \A c \in Callers :
            (op'[c] = "run_migrations" /\ res'[c] = "Ok" /\ res[c] # "Ok") =>
                history' = Versions
       /\ \A c \in Callers :
            (/\ op[c] = "run_migrations"
             /\ pc[c] # "idle"
             /\ arg[c].complete
             /\ pc'[c] # pc[c]) =>
                executed' = executed /\ history' = history]_vars

\* C24: no migration has been executed without its version being recorded,
\* and no migration script is executed twice.
C24_AtomicRecord ==
    \A v \in Versions :
        /\ (executed[v] > 0 => v \in history)
        /\ executed[v] <= 1

\* C25: a failure other than 'already exists' is never ignored: init_tables
\* returns an error when an ADD COLUMN statement fails for another reason,
\* and run_migrations returns an error, and goes no further, when the read
\* of the current version fails.
C25_FailuresPropagate ==
    \A c \in Callers :
        /\ (/\ op[c] = "init_tables"
            /\ \/ arg[c].add_filename = "disk I/O error"
               \/ arg[c].add_size = "disk I/O error") => res[c] = "Err"
        /\ (op[c] = "run_migrations" /\ arg[c].read = "Err") =>
            (pc[c] = "idle" /\ res[c] = "Err")


\* C29: add_model is an upsert keyed by model_id: after every add_model
\* and delete there is at most one row per model_id; the row add_model
\* leaves has the supplied values in every data column, the created_at of
\* the row it replaced (the current time when there was none) and the
\* current time as updated_at, never the timestamps of the ModelInfo; rows
\* of other model_ids are untouched.
C29_AddModelUpsert ==
    [][/\ \A id \in ModelInfoIds :
            Cardinality({r \in models' : r.model_id = id}) <= 1
       /\ \A c \in RepoCallers :
            (op'[c] = "add_model" /\ now' = now) =>
                LET model == arg'[c]
                    old == {r \in models : r.model_id = model.model_id}
                    new == {r \in models' : r.model_id = model.model_id}
                IN  /\ Cardinality(new) = 1
                    /\ models' \ new = models \ old
                    /\ \A r \in new :
                        /\ r.private = (IF model.private THEN 1 ELSE 0)
                        /\ r.downloads = model.downloads
                        /\ r.pipeline_tag =
                            (IF is_some(model.pipeline_tag)
                             THEN unwrap(model.pipeline_tag) ELSE "")
                        /\ r.updated_at = now
                        /\ r.updated_at # model.updated_at
                        /\ r.created_at # model.created_at
                        /\ \A o \in old : r.created_at = o.created_at
                        /\ old = {} => r.created_at = now]_vars

\* add_model has replaced a row created at an earlier time.
C29_Witness ==
    \E c \in RepoCallers :
        /\ op[c] = "add_model"
        /\ \E r \in models :
            /\ r.model_id = arg[c].model_id
            /\ r.created_at < r.updated_at
            /\ r.downloads = 12
            /\ arg[c].downloads = 12


\* C26: concurrent create_model calls whose rows have pairwise distinct
\* ids and names all succeed under every interleaving, each adds exactly
\* its own row, and get_all_models then returns exactly the stored rows,
\* each once, so as many rows as there were calls.
C26_ConcurrentCreate ==
    [][/\ \A c \in Callers :
            /\ (op'[c] = "create_model" /\ pc'[c] = "idle") => res'[c] = "Ok"
            /\ (pc[c] = "create_model_insert" /\ pc'[c] = "idle") =>
                /\ model_params(service_model_to_db(arg[c])) \notin models
                /\ models' = models \cup {model_params(service_model_to_db(arg[c]))}
            /\ (/\ op'[c] = "get_all_models"
                /\ models' = models
                /\ now' = now
                /\ \A d \in Callers \ {c} :
                    /\ pc[d] = pc'[d]
                    /\ op[d] = op'[d]
                    /\ op[d] = "get_all_models" => ret[d] = ret'[d]) =>
                /\ Len(ret'[c]) = Cardinality(models)
                /\ {ret'[c][i] : i \in 1..Len(ret'[c])} =
                        {row_to_models_table(r) : r \in models}
                /\ \A i, j \in 1..Len(ret'[c]) :
                        i < j => ret'[c][i].created_at >= ret'[c][j].created_at
       /\ \A c \in RepoCallers :
            (/\ pc[c] = "idle"
             /\ pc'[c] = "idle"
             /\ models' # models
             /\ \A d \in Callers \ {c} : pc[d] = pc'[d]) =>
                /\ op'[c] = "create_model"
                /\ res'[c] = "Ok"
                /\ model_params(arg'[c]) \notin models
                /\ models' = models \cup {model_params(arg'[c])}]_vars

\* Two create_model calls with distinct ids and names are under way at the
\* same time, both past the name check and before their INSERT.
C26_Witness ==
    /\ \A c \in Callers : pc[c] = "create_model_insert"
    /\ \E c, d \in Callers : arg[c].id # arg[d].id /\ arg[c].name # arg[d].name

\* C27: referential integrity: in every reachable state every installation
\* record's model_id is the id of a stored Model.
C27_ReferentialIntegrity ==
    \A i \in installed : rows_by_id(models, i.model_id) # {}

\* An install_model passed its existence check, a concurrent delete_model
\* then removed the Model, and the INSERT of the record was rejected.
C27_Witness ==
    \E c, d \in Callers :
        /\ pc[c] = "idle"
        /\ op[c] = "install_model"
        /\ res[c] = "DatabaseError"
        /\ op[d] = "delete_model"
        /\ res[d] = "Ok"
        /\ models = {}
        /\ installed = {}


\* C28: in every reachable state the status column of every installation
\* record holds the exact name of a status variant, so that the record
\* converts back without an enum error.
C28_StatusClosed ==
    \A r \in installed : BasicModelStatus_from_str(r.status) # Err


\* C30: PostgresOperations behaves as the SQLite-backed repository: what
\* its get_model_by_id, get_model_by_name and get_all_models return is what
\* the SQLite-backed repository returns after the same calls, so a created
\* model is found by id and by name and listed until it is deleted.
C30_PostgresRefines ==
    \A c \in RepoCallers :
        /\ op[c] = "get_model_by_id" =>
            LET found == get_model_by_id(models, arg[c])
            IN  ret[c] = IF is_some(found) THEN Some(db_model_to_service(unwrap(found)))
                         ELSE None
        /\ op[c] = "get_model_by_name" =>
            LET found == get_model_by_name(models, arg[c])
            IN  ret[c] = IF is_some(found) THEN Some(db_model_to_service(unwrap(found)))
                         ELSE None
        /\ op[c] = "get_all_models" =>
            \E rows \in get_all_models(models) :
                ret[c] = [i \in 1..Len(rows) |-> db_model_to_service(rows[i])]

====
